---- MODULE Spec2Model ----
(***************************************************************************)
(* State-machine model of apm_models_scraper_enhanced.py                   *)
(* (class APMModelsEnhancedScraper): the run_scraper pipeline, the         *)
(* per-item stages, download_model_images, validate_model_data and         *)
(* safe_request.                                                           *)
(*                                                                         *)
(* Conventions: Python strings that only matter through emptiness are      *)
(* naturals, 0 being the empty string; a URL is a positive natural; an     *)
(* Optional argument is a record [some, v], None being [some |-> FALSE].   *)
(* Durations are counted in half seconds.                                  *)
(***************************************************************************)
EXTENDS Integers, Sequences, FiniteSets, TLC

(* ---------------------------- bounds ----------------------------------- *)
MaxItems == 4        \* items the index page can list
MaxGallery == 3      \* gallery URLs a profile page can list (download spec)
MaxCapCfg == 3       \* largest configured max_images_per_model (download spec)
MaxModelsArg == 2    \* largest --max-models argument
MaxRetriesCfg == 4   \* largest configured max_retries (request spec)
MaxDelayCfg == 2     \* largest configured request_delay (request spec)
MaxMinImages == 2    \* largest configured min_images_per_model (validation spec)
MaxFaults == 2       \* failures the environment injects into the item stages of one run

(* ------------------------ program constants ---------------------------- *)
TestModeCap == 3
DefaultMaxImages == 15
DefaultMinImages == 1
DefaultMaxRetries == 3
DefaultRequestDelay == 3

Divisions == {"ima", "mai", "dev"}
ExpectedAttributes == {"height", "eyes"}

DefaultConfig ==
  [max_images_per_model |-> DefaultMaxImages,
   min_images_per_model |-> DefaultMinImages,
   required_divisions |-> Divisions,
   max_retries |-> DefaultMaxRetries,
   request_delay |-> DefaultRequestDelay]

None == [some |-> FALSE, v |-> 0]
Some(x) == [some |-> TRUE, v |-> x]
\* Python truthiness of an Optional[int]
Truthy(opt) == opt.some /\ opt.v # 0

Min(a, b) == IF a < b THEN a ELSE b
Max(a, b) == IF a < b THEN b ELSE a

\* Python s[:m]: the first m elements, a negative m counting from the end
PySlice(s, m) ==
  IF m >= 0 THEN SubSeq(s, 1, Min(m, Len(s)))
  ELSE SubSeq(s, 1, Max(Len(s) + m, 0))

VARIABLES
  pc,               \* position of the running method
  config,           \* self.config (the entries the model reads)
  test_mode,        \* run_scraper argument
  max_models,       \* run_scraper argument (Optional[int])
  index_models,     \* what scrape_alphabet_index returned
  index_outcome,    \* how scrape_alphabet_index ended
  models,           \* run_scraper's local list after the limits
  i,                \* 1-based loop index of run_parallel_processing
  model_data,       \* the dict of the item in process_single_model
  j,                \* 1-based index into limited_gallery_images
  downloaded_files, \* download_model_images local
  stats,            \* self.stats
  models_file,      \* lines of models.jsonl
  processed_models, \* run_parallel_processing local
  driver,           \* self.driver: "none" | "live"
  session,          \* self.session: "open" | "closed"
  result,           \* what run_scraper returned
  events,           \* history of the stages run, in order
  faults,           \* failures the environment may still inject
  soup,             \* the parsed page in hand: what the current selector found
  disk,             \* files under images_dir: path and the item whose bytes it holds
  rq                \* safe_request activation record and the trace of sleeps and requests

vars == <<pc, config, soup, disk, test_mode, max_models, index_models, index_outcome,
          models, i, model_data, j, downloaded_files, stats, models_file,
          processed_models, driver, session, result, events, faults, rq>>

pipeVars == <<soup, test_mode, max_models, index_models, index_outcome, models, i,
              processed_models, driver, session, result>>

NoModel ==
  [model_id |-> 0, name |-> 0, division |-> "", profile_url |-> 0,
   thumbnail |-> 0, slug |-> 0, attributes |-> {}, gallery_images |-> <<>>,
   images |-> <<>>]

\* no page is being parsed
NoSoup == [method |-> 0, selector |-> 0, elements |-> <<>>]

NoRequest == [attempt |-> 0, trace |-> <<>>, response |-> "pending"]

InitStats ==
  [models_found |-> 0, models_processed |-> 0, models_failed |-> 0,
   images_downloaded |-> 0, images_failed |-> 0]

Event(stage, item, n, ok) == [stage |-> stage, item |-> item, n |-> n, ok |-> ok]

\* An injected failure uses up one unit of the failure budget.
CanFail == faults > 0
Fails(ok) == faults' = IF ok THEN faults ELSE faults - 1

(* ------------------------- index stage --------------------------------- *)
\* The dict _extract_model_from_entry builds for the k-th listed profile.
IndexItem(k, kind) ==
  [model_id |-> IF kind = "noid" THEN 0 ELSE k,
   name |-> k,
   division |-> IF kind = "unknown" THEN "unknown" ELSE "dev",
   profile_url |-> k,
   thumbnail |-> IF kind = "nothumb" THEN 0 ELSE k,
   slug |-> k,
   attributes |-> {},
   gallery_images |-> <<>>,
   images |-> <<>>]

ItemKinds == {"noid", "nothumb"}

\* Index pages of n profiles with distinct URLs; at most one profile, the
\* first or the second, lacks its identifier or its thumbnail.
IndexPages ==
  { [k \in 1..n |-> IndexItem(k, "plain")] : n \in 0..MaxItems } \cup
  { [k \in 1..n |-> IndexItem(k, IF k = odd THEN kind ELSE "plain")] :
      n \in 1..MaxItems, odd \in 1..2, kind \in ItemKinds }


MaxModelsArgs == {None} \cup { Some(m) : m \in 0..MaxModelsArg }

\* (test_mode, max_models) pairs of a run: every maximum without test mode,
\* test mode without and with a maximum
RunArgs ==
  { <<FALSE, m>> : m \in MaxModelsArgs } \cup { <<TRUE, None>>, <<TRUE, Some(1)>> }

\* scrape_alphabet_index as called by run_scraper.  setup_driver is called
\* outside the method's try block, so its exception leaves the method and is
\* caught by run_scraper; any exception inside the try block makes the method
\* return []; otherwise the deduplicated list is returned and counted.
ScrapeIndexOf(pages) ==
  /\ pc = "start"
  /\ \/ /\ \E d \in {"none", "live"} : driver' = d
        /\ index_outcome' = "setup_raised"
        /\ result' = "failure_error"
        /\ pc' = "finally"
        /\ UNCHANGED <<index_models, stats>>
     \/ /\ driver' = "live"
        /\ index_outcome' = "page_error"
        /\ index_models' = <<>>
        /\ pc' = "indexed"
        /\ UNCHANGED <<result, stats>>
     \/ /\ driver' = "live"
        /\ index_outcome' = "listed"
        /\ \E page \in pages :
             /\ index_models' = page
             /\ stats' = [stats EXCEPT !.models_found = Len(page)]
        /\ pc' = "indexed"
        /\ UNCHANGED result
  /\ events' = Append(events, Event("index", 0, 0, index_outcome' = "listed"))
  /\ UNCHANGED <<config, disk, soup, test_mode, max_models, models, i, model_data, j,
                 downloaded_files, models_file, processed_models, session, faults, rq>>

ScrapeAlphabetIndex == ScrapeIndexOf(IndexPages)

\* run_scraper lines 946-952: the limits applied to the index list
LimitModels(ms, tm, mm) ==
  IF tm THEN PySlice(ms, TestModeCap)
  ELSE IF Truthy(mm) THEN PySlice(ms, mm.v)
  ELSE ms

\* run_scraper lines 942-957: no models is a failed run, else limit and go on
ApplyLimits ==
  /\ pc = "indexed"
  /\ IF index_models = <<>>
       THEN /\ result' = "failure"
            /\ pc' = "finally"
            /\ UNCHANGED <<models, i>>
       ELSE /\ models' = LimitModels(index_models, test_mode, max_models)
            /\ i' = 1
            /\ pc' = "loop"
            /\ UNCHANGED result
  /\ UNCHANGED <<config, disk, soup, test_mode, max_models, index_models, index_outcome,
                 model_data, j, downloaded_files, stats, models_file,
                 processed_models, driver, session, events, faults, rq>>

\* mutant: a run that processed no model reports failure
NextModelStrict ==
  /\ pc = "loop"
  /\ IF i <= Len(models)
       THEN /\ model_data' = models[i]
            /\ pc' = "fetch"
            /\ UNCHANGED result
       ELSE /\ result' = IF processed_models = <<>> THEN "failure" ELSE "success"
            /\ pc' = "finally"
            /\ UNCHANGED model_data
  /\ UNCHANGED <<config, disk, soup, test_mode, max_models, index_models, index_outcome,
                 models, i, j, downloaded_files, stats, models_file,
                 processed_models, driver, session, events, faults, rq>>

\* run_parallel_processing: the head of the for loop; past the last model the
\* method returns and run_scraper returns success
NextModel ==
  /\ pc = "loop"
  /\ IF i <= Len(models)
       THEN /\ model_data' = models[i]
            /\ pc' = "fetch"
            /\ UNCHANGED result
       ELSE /\ result' = "success"
            /\ pc' = "finally"
            /\ UNCHANGED model_data
  /\ UNCHANGED <<config, disk, soup, test_mode, max_models, index_models, index_outcome,
                 models, i, j, downloaded_files, stats, models_file,
                 processed_models, driver, session, events, faults, rq>>

\* scrape_model_profile: a page that loads gives attributes and gallery URLs;
\* any exception in the try block is caught and gives empty ones
ScrapeModelProfile ==
  /\ pc = "fetch"
  /\ \/ /\ model_data' = [model_data EXCEPT
                            !.attributes = {"height"},
                            !.gallery_images = <<1>>]
        /\ events' = Append(events, Event("fetch", model_data.profile_url, 0, TRUE))
        /\ Fails(TRUE)
     \/ /\ CanFail
        /\ Fails(FALSE)
        /\ model_data' = [model_data EXCEPT
                            !.attributes = {},
                            !.gallery_images = <<>>]
        /\ events' = Append(events, Event("fetch", model_data.profile_url, 0, FALSE))
  /\ pc' = "download"
  /\ UNCHANGED <<config, disk, j, downloaded_files, stats, models_file, rq>>
  /\ UNCHANGED pipeVars

\* mutant: a failed item is counted twice
ProcessFailedTwice(st) == [st EXCEPT !.models_failed = @ + 2]

\* process_single_model lines 882-885: the handler of an exception of a stage
ProcessFailed(st) == [st EXCEPT !.models_failed = @ + 1]

\* download_model_images lines 682-693: the per-slug directory is made; an
\* exception here leaves the method and is caught by process_single_model
DownloadBegin ==
  /\ pc = "download"
  /\ \/ /\ downloaded_files' = <<>>
        /\ pc' = "thumbnail"
        /\ events' = Append(events, Event("download", model_data.profile_url, 0, TRUE))
        /\ UNCHANGED <<stats, faults>>
     \/ /\ CanFail
        /\ Fails(FALSE)
        /\ stats' = ProcessFailed(stats)
        /\ pc' = "after_item"
        /\ events' = Append(events, Event("download", model_data.profile_url, 0, FALSE))
        /\ UNCHANGED downloaded_files
  /\ UNCHANGED <<config, disk, model_data, j, models_file, rq>>
  /\ UNCHANGED pipeVars

File(kind, n) == [kind |-> kind, n |-> n]

\* lines 701-705 and 728-732: one download counted
CountImage(st, ok) ==
  IF ok THEN [st EXCEPT !.images_downloaded = @ + 1]
  ELSE [st EXCEPT !.images_failed = @ + 1]

\* mutant: a failed download leaves its file name in the list
DownloadedWithPlaceholder(files, f, ok) == Append(files, f)

\* lines 701-702 and 728-729: only a file that was downloaded is listed
Downloaded(files, f, ok) == IF ok THEN Append(files, f) ELSE files

\* lines 690, 699, 726 and 742: images_dir / slug / filename, and the path
\* "images/{slug}/{filename}" of the record
ImagePath(slug, f) == [dir |-> slug, kind |-> f.kind, n |-> f.n]
ImagePaths(slug, files) == [k \in 1..Len(files) |-> ImagePath(slug, files[k])]

\* _download_image lines 756-761: the bytes replace what the path held
Write(files, path, by, ok) ==
  IF ok THEN { f \in files : f.path # path } \cup {[path |-> path, by |-> by]}
  ELSE files

\* download_model_images lines 695-709: the thumbnail, when there is a URL
DownloadThumbnail ==
  /\ pc = "thumbnail"
  /\ IF model_data.thumbnail # 0
       THEN \E ok \in BOOLEAN :
              /\ ok \/ CanFail
              /\ Fails(ok)
              /\ downloaded_files' =
                   Downloaded(downloaded_files, File("thumbnail", 0), ok)
              /\ disk' = Write(disk, ImagePath(model_data.slug, File("thumbnail", 0)),
                               model_data.profile_url, ok)
              /\ stats' = CountImage(stats, ok)
              /\ events' = Append(events,
                   Event("get_thumbnail", model_data.profile_url, 0, ok))
       ELSE UNCHANGED <<downloaded_files, disk, stats, events, faults>>
  /\ j' = 1
  /\ pc' = "gallery"
  /\ UNCHANGED <<config, model_data, models_file, rq>>
  /\ UNCHANGED pipeVars

\* download_model_images lines 713-715
LimitedGalleryImages(gallery, cfg) ==
  PySlice(gallery, cfg.max_images_per_model - 1)

\* mutant: a failed gallery download ends the loop
DownloadGalleryImageAbort ==
  /\ pc = "gallery"
  /\ j <= Len(LimitedGalleryImages(model_data.gallery_images, config))
  /\ \E ok \in BOOLEAN :
       /\ ok \/ CanFail
       /\ Fails(ok)
       /\ downloaded_files' =
            Downloaded(downloaded_files, File("portfolio", j), ok)
       /\ disk' = Write(disk, ImagePath(model_data.slug, File("portfolio", j)),
                        model_data.profile_url, ok)
       /\ stats' = CountImage(stats, ok)
       /\ events' = Append(events,
            Event("get_portfolio", model_data.profile_url, j, ok))
       /\ j' = IF ok THEN j + 1
               ELSE Len(LimitedGalleryImages(model_data.gallery_images, config)) + 1
  /\ UNCHANGED <<pc, config, model_data, models_file, rq>>
  /\ UNCHANGED pipeVars

\* download_model_images lines 720-737: the j-th limited gallery URL
DownloadGalleryImage ==
  /\ pc = "gallery"
  /\ j <= Len(LimitedGalleryImages(model_data.gallery_images, config))
  /\ \E ok \in BOOLEAN :
       /\ ok \/ CanFail
       /\ Fails(ok)
       /\ downloaded_files' =
            Downloaded(downloaded_files, File("portfolio", j), ok)
       /\ disk' = Write(disk, ImagePath(model_data.slug, File("portfolio", j)),
                        model_data.profile_url, ok)
       /\ stats' = CountImage(stats, ok)
       /\ events' = Append(events,
            Event("get_portfolio", model_data.profile_url, j, ok))
  /\ j' = j + 1
  /\ UNCHANGED <<pc, config, model_data, models_file, rq>>
  /\ UNCHANGED pipeVars

\* download_model_images lines 739-747: the paths of the files downloaded
DownloadFinish ==
  /\ pc = "gallery"
  /\ j > Len(LimitedGalleryImages(model_data.gallery_images, config))
  /\ model_data' = [model_data EXCEPT
                      !.images = ImagePaths(model_data.slug, downloaded_files)]
  /\ pc' = "validate"
  /\ UNCHANGED <<config, disk, j, downloaded_files, stats, models_file, events,
                 faults, rq>>
  /\ UNCHANGED pipeVars

\* validate_model_data lines 792-820, as the code runs it: the required fields
\* in order, then the division, then the image count
RequiredFieldsPresent(md) ==
  /\ md.model_id # 0
  /\ md.name # 0
  /\ md.division # ""
  /\ md.profile_url # 0

\* mutant: the identifier is not required
validate_without_id(md, cfg) ==
  IF ~(md.name # 0 /\ md.division # "" /\ md.profile_url # 0) THEN FALSE
  ELSE IF md.division \notin cfg.required_divisions THEN FALSE
  ELSE IF Len(md.images) < cfg.min_images_per_model THEN FALSE
  ELSE TRUE

validate_model_data(md, cfg) ==
  IF ~RequiredFieldsPresent(md) THEN FALSE
  ELSE IF md.division \notin cfg.required_divisions THEN FALSE
  ELSE IF Len(md.images) < cfg.min_images_per_model THEN FALSE
  ELSE TRUE

\* mutant: the verdict of the validation is ignored
ValidateModelDataIgnored ==
  /\ pc = "validate"
  /\ LET ok == validate_model_data(model_data, config) IN
       events' = Append(events, Event("validate", model_data.profile_url, 0, ok))
  /\ pc' = "save"
  /\ UNCHANGED <<config, disk, model_data, j, downloaded_files, stats, models_file,
                 faults, rq>>
  /\ UNCHANGED pipeVars

\* process_single_model lines 867-871
ValidateModelData ==
  /\ pc = "validate"
  /\ LET ok == validate_model_data(model_data, config) IN
       /\ events' = Append(events, Event("validate", model_data.profile_url, 0, ok))
       /\ IF ok
            THEN /\ pc' = "save"
                 /\ UNCHANGED stats
            ELSE /\ pc' = "after_item"
                 /\ stats' = ProcessFailed(stats)
  /\ UNCHANGED <<config, disk, model_data, j, downloaded_files, models_file,
                 faults, rq>>
  /\ UNCHANGED pipeVars

\* save_model_metadata lines 834-842
Record(md) ==
  [model_id |-> md.model_id, name |-> md.name, division |-> md.division,
   profile_url |-> md.profile_url, thumbnail |-> md.thumbnail,
   attributes |-> md.attributes, images |-> md.images]

\* mutant: the file is opened for writing, not for appending
WriteRecord(file, record) == <<record>>

\* save_model_metadata lines 845-846: jsonlines.open(..., mode='a')
AppendRecord(file, record) == Append(file, record)

\* mutant: a failed append ends the run
SaveModelMetadataFatal ==
  /\ pc = "save"
  /\ \/ /\ models_file' = AppendRecord(models_file, Record(model_data))
        /\ stats' = [stats EXCEPT !.models_processed = @ + 1]
        /\ processed_models' = Append(processed_models, model_data)
        /\ events' = Append(events, Event("save", model_data.profile_url, 0, TRUE))
        /\ Fails(TRUE)
        /\ pc' = "after_item"
        /\ UNCHANGED result
     \/ /\ CanFail
        /\ Fails(FALSE)
        /\ stats' = ProcessFailed(stats)
        /\ events' = Append(events, Event("save", model_data.profile_url, 0, FALSE))
        /\ result' = "failure_error"
        /\ pc' = "finally"
        /\ UNCHANGED <<models_file, processed_models>>
  /\ UNCHANGED <<config, disk, soup, test_mode, max_models, index_models, index_outcome,
                 models, i, model_data, j, downloaded_files, driver, session, rq>>

\* mutant: a failed append is tried again
SaveModelMetadataRetry ==
  /\ pc = "save"
  /\ \/ /\ models_file' = AppendRecord(models_file, Record(model_data))
        /\ stats' = [stats EXCEPT !.models_processed = @ + 1]
        /\ processed_models' = Append(processed_models, model_data)
        /\ events' = Append(events, Event("save", model_data.profile_url, 0, TRUE))
        /\ Fails(TRUE)
        /\ pc' = "after_item"
     \/ /\ CanFail
        /\ Fails(FALSE)
        /\ events' = Append(events, Event("save", model_data.profile_url, 0, FALSE))
        /\ IF faults' > 0
             THEN /\ pc' = "save"
                  /\ UNCHANGED stats
             ELSE /\ pc' = "after_item"
                  /\ stats' = ProcessFailed(stats)
        /\ UNCHANGED <<models_file, processed_models>>
  /\ UNCHANGED <<config, disk, soup, test_mode, max_models, index_models, index_outcome,
                 models, i, model_data, j, downloaded_files, driver, session,
                 result, rq>>

\* process_single_model lines 873-880 with save_model_metadata: one append,
\* which may fail
SaveModelMetadata ==
  /\ pc = "save"
  /\ \/ /\ models_file' = AppendRecord(models_file, Record(model_data))
        /\ stats' = [stats EXCEPT !.models_processed = @ + 1]
        /\ processed_models' = Append(processed_models, model_data)
        /\ events' = Append(events, Event("save", model_data.profile_url, 0, TRUE))
        /\ Fails(TRUE)
     \/ /\ CanFail
        /\ Fails(FALSE)
        /\ stats' = ProcessFailed(stats)
        /\ events' = Append(events, Event("save", model_data.profile_url, 0, FALSE))
        /\ UNCHANGED <<models_file, processed_models>>
  /\ pc' = "after_item"
  /\ UNCHANGED <<config, disk, soup, test_mode, max_models, index_models, index_outcome,
                 models, i, model_data, j, downloaded_files, driver, session,
                 result, rq>>

\* mutant: the delay also follows the last model
InterItemDelayAlways ==
  /\ pc = "after_item"
  /\ events' = Append(events, Event("delay", model_data.profile_url, 0, TRUE))
  /\ i' = i + 1
  /\ pc' = "loop"
  /\ UNCHANGED <<config, disk, soup, test_mode, max_models, index_models, index_outcome,
                 models, model_data, j, downloaded_files, stats, models_file,
                 processed_models, driver, session, result, faults, rq>>

\* run_parallel_processing lines 912-914: the delay between two models
InterItemDelay ==
  /\ pc = "after_item"
  /\ events' = IF i < Len(models)
                 THEN Append(events, Event("delay", model_data.profile_url, 0, TRUE))
                 ELSE events
  /\ i' = i + 1
  /\ pc' = "loop"
  /\ UNCHANGED <<config, disk, soup, test_mode, max_models, index_models, index_outcome,
                 models, model_data, j, downloaded_files, stats, models_file,
                 processed_models, driver, session, result, faults, rq>>

\* close_driver, first statement of run_scraper's finally block: quit may
\* raise, and then neither self.driver = None nor session.close() runs and the
\* exception replaces run_scraper's return value
CloseDriver ==
  /\ pc = "finally"
  /\ IF driver = "live"
       THEN \/ /\ driver' = "none"
               /\ pc' = "close_session"
               /\ UNCHANGED result
            \/ /\ result' = "raised"
               /\ pc' = "raised"
               /\ UNCHANGED driver
       ELSE /\ pc' = "close_session"
            /\ UNCHANGED <<driver, result>>
  /\ UNCHANGED <<config, disk, soup, test_mode, max_models, index_models, index_outcome,
                 models, i, model_data, j, downloaded_files, stats, models_file,
                 processed_models, session, events, faults, rq>>

\* run_scraper line 979
CloseSession ==
  /\ pc = "close_session"
  /\ session' = "closed"
  /\ pc' = "returned"
  /\ UNCHANGED <<config, disk, soup, test_mode, max_models, index_models, index_outcome,
                 models, i, model_data, j, downloaded_files, stats, models_file,
                 processed_models, driver, result, events, faults, rq>>

Init ==
  /\ pc = "start"
  /\ config = DefaultConfig
  /\ \E args \in RunArgs :
       /\ test_mode = args[1]
       /\ max_models = args[2]
  /\ index_models = <<>>
  /\ index_outcome = "pending"
  /\ models = <<>>
  /\ i = 0
  /\ model_data = NoModel
  /\ j = 0
  /\ downloaded_files = <<>>
  /\ stats = InitStats
  /\ models_file = <<>>
  /\ processed_models = <<>>
  /\ driver = "none"
  /\ session = "open"
  /\ result = "pending"
  /\ events = <<>>
  /\ faults = MaxFaults
  /\ rq = NoRequest
  /\ disk = {}
  /\ soup = NoSoup

Next ==
  \/ ScrapeAlphabetIndex
  \/ ApplyLimits
  \/ NextModel
  \/ ScrapeModelProfile
  \/ DownloadBegin
  \/ DownloadThumbnail
  \/ DownloadGalleryImage
  \/ DownloadFinish
  \/ ValidateModelData
  \/ SaveModelMetadata
  \/ InterItemDelay
  \/ CloseDriver
  \/ CloseSession

Spec == Init /\ [][Next]_vars


(* ------------------ the pipeline run a second time ---------------------- *)
\* The index page of a site that stays the same from one run to the next:
\* MaxItems profiles, the second without a thumbnail.
SamePage ==
  [k \in 1..MaxItems |-> IndexItem(k, IF k = 2 THEN "nothumb" ELSE "plain")]

ScrapeSameIndex == ScrapeIndexOf({SamePage})

IndexEvents == { p \in 1..Len(events) : events[p].stage = "index" }

\* The program is started again on the same output directory with the same
\* arguments: __init__ builds a fresh scraper (lines 87-114), the file
\* models.jsonl is what the run before left.
SecondRun ==
  /\ pc \in {"returned", "raised"}
  /\ Cardinality(IndexEvents) = 1
  /\ pc' = "start"
  /\ index_models' = <<>>
  /\ index_outcome' = "pending"
  /\ models' = <<>>
  /\ i' = 0
  /\ model_data' = NoModel
  /\ j' = 0
  /\ downloaded_files' = <<>>
  /\ stats' = InitStats
  /\ processed_models' = <<>>
  /\ driver' = "none"
  /\ session' = "open"
  /\ result' = "pending"
  /\ UNCHANGED <<config, disk, soup, test_mode, max_models, models_file,
                 events, faults, rq>>

NextRerun ==
  \/ ScrapeSameIndex
  \/ ApplyLimits
  \/ NextModel
  \/ ScrapeModelProfile
  \/ DownloadBegin
  \/ DownloadThumbnail
  \/ DownloadGalleryImage
  \/ DownloadFinish
  \/ ValidateModelData
  \/ SaveModelMetadata
  \/ InterItemDelay
  \/ CloseDriver
  \/ CloseSession
  \/ SecondRun

SpecRerun == Init /\ [][NextRerun]_vars

(* ---------------- profiles that share a name --------------------------- *)
\* An index page can list one name under several profile URLs (one model in
\* two divisions): _extract_model_from_entry takes the name from the link
\* text, the URL from the href and the slug from the name alone, and the
\* list is deduplicated by URL.
Namesake(k, name) ==
  [IndexItem(k, "plain") EXCEPT !.name = name, !.slug = name]

\* Index pages of 1..MaxItems profiles with distinct URLs, each profile after
\* the first bearing a name of its own or the name of the first
NamesakePages ==
  UNION { { [k \in 1..n |-> Namesake(k, IF k \in same THEN 1 ELSE k)] :
              same \in SUBSET (2..n) } : n \in 1..MaxItems }

ScrapeNamesakeIndex == ScrapeIndexOf(NamesakePages)

InitNamesakes ==
  /\ Init
  /\ test_mode = FALSE
  /\ max_models = None

NextNamesakes ==
  \/ ScrapeNamesakeIndex
  \/ ApplyLimits
  \/ NextModel
  \/ ScrapeModelProfile
  \/ DownloadBegin
  \/ DownloadThumbnail
  \/ DownloadGalleryImage
  \/ DownloadFinish
  \/ ValidateModelData
  \/ SaveModelMetadata
  \/ InterItemDelay
  \/ CloseDriver
  \/ CloseSession

SpecNamesakes == InitNamesakes /\ [][NextNamesakes]_vars

(* ------------- download_model_images on its own ------------------------ *)
\* One item with or without a thumbnail URL and with 0..MaxGallery gallery
\* URLs enters download_model_images under a configured max_images_per_model.
DownloadInputs ==
  { [IndexItem(1, kind) EXCEPT !.attributes = {"height"},
                               !.gallery_images = [u \in 1..g |-> u]] :
      kind \in {"plain", "nothumb"}, g \in 0..MaxGallery }

InitDownload ==
  /\ pc = "download"
  /\ \E m \in 0..MaxCapCfg :
       config = [DefaultConfig EXCEPT !.max_images_per_model = m]
  /\ model_data \in DownloadInputs
  /\ models = <<model_data>>
  /\ index_models = models
  /\ index_outcome = "listed"
  /\ i = 1
  /\ test_mode = FALSE
  /\ max_models = None
  /\ j = 0
  /\ downloaded_files = <<>>
  /\ stats = [InitStats EXCEPT !.models_found = 1]
  /\ models_file = <<>>
  /\ processed_models = <<>>
  /\ driver = "live"
  /\ session = "open"
  /\ result = "pending"
  /\ events = <<>>
  /\ faults = MaxGallery + 2
  /\ rq = NoRequest
  /\ disk = {}
  /\ soup = NoSoup

NextDownload ==
  \/ DownloadBegin
  \/ DownloadThumbnail
  \/ DownloadGalleryImage
  \/ DownloadFinish

SpecDownload == InitDownload /\ [][NextDownload]_vars

(* ---------------- validate_model_data on its own ----------------------- *)
ValidationInputs ==
  { [model_id |-> id, name |-> nm, division |-> dv, profile_url |-> url,
     thumbnail |-> 1, slug |-> nm, attributes |-> at,
     gallery_images |-> <<>>,
     images |-> [u \in 1..n |-> ImagePath(nm, File("portfolio", u))]] :
      id \in {0, 1}, nm \in {0, 1}, dv \in {"", "dev", "ima", "unknown"},
      url \in {0, 1}, at \in SUBSET ExpectedAttributes,
      n \in 0..(MaxMinImages + 1) }

InitValidate ==
  /\ pc = "validate"
  /\ \E m \in 0..MaxMinImages, rd \in {Divisions, {"ima"}} :
       config = [DefaultConfig EXCEPT !.min_images_per_model = m,
                                      !.required_divisions = rd]
  /\ model_data \in ValidationInputs
  /\ models = <<model_data>>
  /\ index_models = models
  /\ index_outcome = "listed"
  /\ i = 1
  /\ test_mode = FALSE
  /\ max_models = None
  /\ j = 0
  /\ downloaded_files = [u \in 1..Len(model_data.images) |-> File("portfolio", u)]
  /\ stats = [InitStats EXCEPT !.models_found = 1]
  /\ models_file = <<>>
  /\ processed_models = <<>>
  /\ driver = "live"
  /\ session = "open"
  /\ result = "pending"
  /\ events = <<>>
  /\ faults = 0
  /\ rq = NoRequest
  /\ disk = {}
  /\ soup = NoSoup

NextValidate == ValidateModelData

SpecValidate == InitValidate /\ [][NextValidate]_vars

(* ----------------------- safe_request ---------------------------------- *)
Sleep(t) == [op |-> "sleep", t |-> t, outcome |-> "slept"]
\* time.sleep raises ValueError for a negative argument
SleepRaises(t) == [op |-> "sleep", t |-> t, outcome |-> "raised"]
CanSleep(t) == t >= 0
Get(outcome) == [op |-> "get", t |-> 0, outcome |-> outcome]

\* mutant: the same sleep after every failed attempt
BackoffConstant(delay, attempt) == delay

\* line 223: the sleep after failed attempt number attempt (0-based)
BackoffDelay(delay, attempt) == delay * (attempt + 1)

\* mutant: one attempt too many
MoreAttemptsOffByOne(attempt, max_retries) == attempt <= max_retries

\* line 212: range(max_retries) has another value
MoreAttempts(attempt, max_retries) == attempt < max_retries

\* line 220: this was the last attempt
LastAttempt(attempt, max_retries) == attempt = max_retries - 1

\* lines 212-223: one pass of the for loop.  The GET either returns a response
\* that raise_for_status accepts, or a RequestException is raised (by the
\* transport, or by raise_for_status for an error status).  An exception of
\* time.sleep on line 214 is no RequestException and leaves safe_request.
RequestAttemptOf(outcomes) ==
  /\ pc = "request"
  /\ MoreAttempts(rq.attempt, config.max_retries)
  /\ IF CanSleep(config.request_delay)
       THEN \E outcome \in outcomes :
         LET tried == rq.trace \o <<Sleep(config.request_delay), Get(outcome)>> IN
         IF outcome = "ok"
           THEN /\ rq' = [rq EXCEPT !.trace = tried, !.response = "response"]
                /\ pc' = "request_done"
           ELSE IF LastAttempt(rq.attempt, config.max_retries)
             THEN /\ rq' = [rq EXCEPT !.trace = tried, !.response = "none"]
                  /\ pc' = "request_done"
             ELSE /\ rq' = [rq EXCEPT
                              !.trace = Append(tried,
                                 Sleep(BackoffDelay(config.request_delay, rq.attempt))),
                              !.attempt = @ + 1]
                  /\ pc' = "request"
       ELSE /\ rq' = [rq EXCEPT
                        !.trace = Append(@, SleepRaises(config.request_delay)),
                        !.response = "raised"]
            /\ pc' = "request_done"
  /\ UNCHANGED <<config, disk, model_data, j, downloaded_files, stats, models_file,
                 events, faults>>
  /\ UNCHANGED pipeVars

RequestAttempt == RequestAttemptOf({"ok", "http_error", "transport_error"})

\* line 224: the loop body never ran (max_retries is 0)
RequestNoAttempt ==
  /\ pc = "request"
  /\ ~MoreAttempts(rq.attempt, config.max_retries)
  /\ rq' = [rq EXCEPT !.response = "none"]
  /\ pc' = "request_done"
  /\ UNCHANGED <<config, disk, model_data, j, downloaded_files, stats, models_file,
                 events, faults>>
  /\ UNCHANGED pipeVars

InitRequest ==
  /\ pc = "request"
  /\ \E r \in 0..MaxRetriesCfg, d \in 0..MaxDelayCfg :
       config = [DefaultConfig EXCEPT !.max_retries = r, !.request_delay = d]
  /\ model_data = NoModel
  /\ models = <<>>
  /\ index_models = <<>>
  /\ index_outcome = "pending"
  /\ i = 0
  /\ test_mode = FALSE
  /\ max_models = None
  /\ j = 0
  /\ downloaded_files = <<>>
  /\ stats = InitStats
  /\ models_file = <<>>
  /\ processed_models = <<>>
  /\ driver = "none"
  /\ session = "open"
  /\ result = "pending"
  /\ events = <<>>
  /\ faults = 0
  /\ rq = NoRequest
  /\ disk = {}
  /\ soup = NoSoup

NextRequest ==
  \/ RequestAttempt
  \/ RequestNoAttempt

SpecRequest == InitRequest /\ [][NextRequest]_vars


(* ------------- the requests and sleeps of one run ---------------------- *)
\* The run at the level of its requests to the site: rq.trace runs over the
\* whole run and holds, in order, every navigation of the browser, every GET
\* of the HTTP session and every sleep of the thread.
MaxVisited == 2      \* items the index page lists (request-level spec)

IndexSettle == 10    \* line 246: time.sleep(5)
ProfileSettle == 6   \* line 534: time.sleep(3)

\* driver.get(url): the navigation returns or raises
IndexGet(outcome) == [op |-> "index_page", t |-> 0, outcome |-> outcome]
ProfileGet(outcome) == [op |-> "profile_page", t |-> 0, outcome |-> outcome]

\* lines 242-246 and 531-534: the navigation, and the settle sleep when the
\* navigation returned
Navigate(trace, get, settle) ==
  IF get.outcome = "loaded" THEN trace \o <<get, Sleep(settle)>>
  ELSE Append(trace, get)

\* Index pages of 1..MaxVisited profiles; the first may lack its thumbnail.
VisitedPages ==
  { [k \in 1..n |-> IndexItem(k, IF k = 1 THEN kind ELSE "plain")] :
      n \in 1..MaxVisited, kind \in {"plain", "nothumb"} }

\* scrape_alphabet_index: setup_driver raises (no request is made), or the
\* navigation raises, or the page loads and the thread sleeps the settle
\* delay; after that the page is parsed, or an exception gives [].
GetIndexPage ==
  /\ pc = "start"
  /\ \/ /\ \E d \in {"none", "live"} : driver' = d
        /\ index_outcome' = "setup_raised"
        /\ result' = "failure_error"
        /\ pc' = "finally"
        /\ UNCHANGED <<index_models, stats, rq>>
     \/ /\ driver' = "live"
        /\ index_outcome' = "page_error"
        /\ index_models' = <<>>
        /\ \E outcome \in {"raised", "loaded"} :
             rq' = [rq EXCEPT
                      !.trace = Navigate(@, IndexGet(outcome), IndexSettle)]
        /\ pc' = "indexed"
        /\ UNCHANGED <<result, stats>>
     \/ /\ driver' = "live"
        /\ index_outcome' = "listed"
        /\ rq' = [rq EXCEPT
                    !.trace = Navigate(@, IndexGet("loaded"), IndexSettle)]
        /\ \E page \in VisitedPages :
             /\ index_models' = page
             /\ stats' = [stats EXCEPT !.models_found = Len(page)]
        /\ pc' = "indexed"
        /\ UNCHANGED result
  /\ events' = Append(events, Event("index", 0, 0, index_outcome' = "listed"))
  /\ UNCHANGED <<config, disk, soup, test_mode, max_models, models, i, model_data, j,
                 downloaded_files, models_file, processed_models, session, faults>>

\* scrape_model_profile lines 527-570: the navigation and the settle sleep;
\* an exception, raised by the navigation or after the sleep, gives empty
\* attributes and an empty gallery
GetProfilePage ==
  /\ pc = "fetch"
  /\ \/ /\ rq' = [rq EXCEPT
                    !.trace = Navigate(@, ProfileGet("loaded"), ProfileSettle)]
        /\ model_data' = [model_data EXCEPT
                            !.attributes = {"height"},
                            !.gallery_images = <<1>>]
        /\ events' = Append(events, Event("fetch", model_data.profile_url, 0, TRUE))
        /\ Fails(TRUE)
     \/ /\ CanFail
        /\ Fails(FALSE)
        /\ \E outcome \in {"raised", "loaded"} :
             rq' = [rq EXCEPT
                      !.trace = Navigate(@, ProfileGet(outcome), ProfileSettle)]
        /\ model_data' = [model_data EXCEPT
                            !.attributes = {},
                            !.gallery_images = <<>>]
        /\ events' = Append(events, Event("fetch", model_data.profile_url, 0, FALSE))
  /\ pc' = "download"
  /\ UNCHANGED <<config, disk, j, downloaded_files, stats, models_file>>
  /\ UNCHANGED pipeVars

\* safe_request is entered: lines 209-210
Call(r) == [r EXCEPT !.attempt = 0, !.response = "pending"]

\* download_model_images lines 695-701: _download_image is called for the
\* thumbnail when there is a URL
CallThumbnail ==
  /\ pc = "thumbnail"
  /\ IF model_data.thumbnail # 0
       THEN /\ rq' = Call(rq)
            /\ j' = 0
            /\ pc' = "request"
       ELSE /\ j' = 1
            /\ pc' = "gallery"
            /\ UNCHANGED rq
  /\ UNCHANGED <<config, disk, model_data, downloaded_files, stats, models_file,
                 events, faults>>
  /\ UNCHANGED pipeVars

\* download_model_images lines 720-728: _download_image is called for the
\* j-th limited gallery URL
CallGalleryImage ==
  /\ pc = "gallery"
  /\ j <= Len(LimitedGalleryImages(model_data.gallery_images, config))
  /\ rq' = Call(rq)
  /\ pc' = "request"
  /\ UNCHANGED <<config, disk, model_data, j, downloaded_files, stats, models_file,
                 events, faults>>
  /\ UNCHANGED pipeVars

\* _download_image lines 751-768 and its caller's lines 701-705, 728-732:
\* without a response, or when writing the file raises, the download failed
ImageReturn ==
  /\ pc = "request_done"
  /\ \E ok \in BOOLEAN :
       LET f == IF j = 0 THEN File("thumbnail", 0) ELSE File("portfolio", j) IN
       /\ ok => rq.response = "response"
       /\ (~ok /\ rq.response = "response") => CanFail
       /\ faults' = IF ~ok /\ rq.response = "response" THEN faults - 1 ELSE faults
       /\ downloaded_files' = Downloaded(downloaded_files, f, ok)
       /\ disk' = Write(disk, ImagePath(model_data.slug, f),
                        model_data.profile_url, ok)
       /\ stats' = CountImage(stats, ok)
       /\ events' = Append(events,
            Event(IF j = 0 THEN "get_thumbnail" ELSE "get_portfolio",
                  model_data.profile_url, j, ok))
  /\ j' = j + 1
  /\ pc' = "gallery"
  /\ UNCHANGED <<config, model_data, models_file, rq>>
  /\ UNCHANGED pipeVars

\* mutant: no sleep between two models
NoSleepBetweenModels ==
  /\ pc = "after_item"
  /\ events' = IF i < Len(models)
                 THEN Append(events, Event("delay", model_data.profile_url, 0, TRUE))
                 ELSE events
  /\ i' = i + 1
  /\ pc' = "loop"
  /\ UNCHANGED <<config, disk, soup, test_mode, max_models, index_models, index_outcome,
                 models, model_data, j, downloaded_files, stats, models_file,
                 processed_models, driver, session, result, faults, rq>>

\* run_parallel_processing lines 912-918: time.sleep(request_delay) between
\* two models; the sleep sits in the try block of the loop body, whose except
\* clause counts a failed model
SleepBetweenModels ==
  /\ pc = "after_item"
  /\ IF i < Len(models)
       THEN IF CanSleep(config.request_delay)
         THEN /\ rq' = [rq EXCEPT !.trace = Append(@, Sleep(config.request_delay))]
              /\ events' = Append(events,
                   Event("delay", model_data.profile_url, 0, TRUE))
              /\ UNCHANGED stats
         ELSE /\ rq' = [rq EXCEPT
                          !.trace = Append(@, SleepRaises(config.request_delay))]
              /\ events' = Append(events,
                   Event("delay", model_data.profile_url, 0, FALSE))
              /\ stats' = [stats EXCEPT !.models_failed = @ + 1]
       ELSE UNCHANGED <<rq, events, stats>>
  /\ i' = i + 1
  /\ pc' = "loop"
  /\ UNCHANGED <<config, disk, soup, test_mode, max_models, index_models, index_outcome,
                 models, model_data, j, downloaded_files, models_file,
                 processed_models, driver, session, result, faults>>

\* One pass of safe_request's loop in a run: both kinds of failure take the
\* same except clause (line 218), one of them stands for both here.
GetAttempt == RequestAttemptOf({"ok", "transport_error"})

\* request delays: negative, 0, the default, and more than either settle delay
ThrottleDelays == {-1, 0, DefaultRequestDelay, IndexSettle + 1}

InitThrottle ==
  /\ pc = "start"
  /\ \E d \in ThrottleDelays, r \in {0, 2} :
       config = [DefaultConfig EXCEPT !.request_delay = d, !.max_retries = r]
  /\ test_mode = FALSE
  /\ max_models = None
  /\ index_models = <<>>
  /\ index_outcome = "pending"
  /\ models = <<>>
  /\ i = 0
  /\ model_data = NoModel
  /\ j = 0
  /\ downloaded_files = <<>>
  /\ stats = InitStats
  /\ models_file = <<>>
  /\ processed_models = <<>>
  /\ driver = "none"
  /\ session = "open"
  /\ result = "pending"
  /\ events = <<>>
  /\ faults = MaxFaults
  /\ rq = NoRequest
  /\ disk = {}
  /\ soup = NoSoup

NextThrottle ==
  \/ GetIndexPage
  \/ ApplyLimits
  \/ NextModel
  \/ GetProfilePage
  \/ DownloadBegin
  \/ CallThumbnail
  \/ CallGalleryImage
  \/ GetAttempt
  \/ RequestNoAttempt
  \/ ImageReturn
  \/ DownloadFinish
  \/ ValidateModelData
  \/ SaveModelMetadata
  \/ SleepBetweenModels

SpecThrottle == InitThrottle /\ [][NextThrottle]_vars

(* ------------------------- strings -------------------------------------- *)
\* A text is a sequence of characters of these classes: a lowercase letter,
\* an uppercase letter, a digit, the underscore, the space, the hyphen and a
\* punctuation mark.
Chars == {"a", "A", "1", "_", " ", "-", "'"}
Lower(c) == IF c = "A" THEN "a" ELSE c
LowerStr(t) == [k \in 1..Len(t) |-> Lower(t[k])]
\* the regular expression classes \w and \s
IsWord(c) == c \in {"a", "A", "1", "_"}
IsSpace(c) == c = " "

RECURSIVE LStrip(_, _)
LStrip(t, drop) ==
  IF t # <<>> /\ t[1] \in drop THEN LStrip(Tail(t), drop) ELSE t
RECURSIVE RStrip(_, _)
RStrip(t, drop) ==
  IF t # <<>> /\ t[Len(t)] \in drop THEN RStrip(SubSeq(t, 1, Len(t) - 1), drop)
  ELSE t
\* str.strip(): leading and trailing characters of the set are removed
StripChars(t, drop) == RStrip(LStrip(t, drop), drop)
\* str.strip() and get_text(strip=True) of a single text
Strip(t) == StripChars(t, {" "})

\* re.sub(r'[-\s]+', '_', t): every maximal run of hyphens and spaces
\* becomes one underscore
RECURSIVE SubRuns(_)
SubRuns(t) ==
  IF t = <<>> THEN <<>>
  ELSE IF t[1] = "-" \/ IsSpace(t[1])
    THEN <<"_">> \o SubRuns(LStrip(t, {"-", " "}))
    ELSE <<t[1]>> \o SubRuns(Tail(t))

\* ModelRecord.slugify_name lines 77-82
slugify_name(name) ==
  StripChars(
    SubRuns(SelectSeq(LowerStr(name),
                      LAMBDA c : IsWord(c) \/ IsSpace(c) \/ c = "-")),
    {"_"})

(* --------------------------- URLs --------------------------------------- *)
\* A URL path is a sequence of segments, each written after a "/"; a segment
\* is a word, optionally followed by "-<digits>" and then optionally by
\* "-<tail>"; the empty word as last segment is a trailing "/".
Seg(word, digits, tail) == [word |-> word, digits |-> digits, tail |-> tail]
Word(w) == Seg(w, 0, FALSE)
IsDivisionWord(seg) == seg.word \in Divisions /\ seg.digits = 0 /\ ~seg.tail
MinOf(S) == CHOOSE x \in S : \A y \in S : x <= y

\* the positions where each pattern of _extract_division_from_url matches
\* r'/models/(ima|mai|dev)/'
MatchModelsDivision(path) ==
  { p \in 1..(Len(path) - 2) : path[p] = Word("models") /\ IsDivisionWord(path[p + 1]) }
\* r'/(ima|mai|dev)-\d+'
MatchDivisionPrefix(path) ==
  { p \in 1..Len(path) : path[p].word \in Divisions /\ path[p].digits > 0 }
\* r'/(ima|mai|dev)/'
MatchDivisionSegment(path) ==
  { p \in 1..(Len(path) - 1) : IsDivisionWord(path[p]) }

\* mutant: the patterns are tried in the reverse order
extract_division_reversed(path) ==
  IF MatchDivisionSegment(path) # {}
    THEN path[MinOf(MatchDivisionSegment(path))].word
  ELSE IF MatchDivisionPrefix(path) # {}
    THEN path[MinOf(MatchDivisionPrefix(path))].word
  ELSE IF MatchModelsDivision(path) # {}
    THEN path[MinOf(MatchModelsDivision(path)) + 1].word
  ELSE "unknown"

\* _extract_division_from_url lines 434-448: re.search takes the leftmost
\* match of the first pattern that matches
extract_division_from_url(path) ==
  IF MatchModelsDivision(path) # {}
    THEN path[MinOf(MatchModelsDivision(path)) + 1].word
  ELSE IF MatchDivisionPrefix(path) # {}
    THEN path[MinOf(MatchDivisionPrefix(path))].word
  ELSE IF MatchDivisionSegment(path) # {}
    THEN path[MinOf(MatchDivisionSegment(path))].word
  ELSE "unknown"

\* lines 392-393 and 483-484: re.search(r'/(ima|mai|dev)-(\d+)-', url)
MatchId(path) ==
  { p \in 1..Len(path) :
      path[p].word \in Divisions /\ path[p].digits > 0 /\ path[p].tail }
IdFromUrl(path) ==
  IF MatchId(path) # {} THEN path[MinOf(MatchId(path))].digits ELSE 0

\* an href is relative or absolute; the empty path is the empty string
Href(rel, path) == [rel |-> rel, path |-> path]
NoHref == Href(TRUE, <<>>)
\* lines 381-382 and 471-472: urljoin(self.base_url, profile_url)
Resolve(href) == [href EXCEPT !.rel = FALSE]
\* line 475: any(div in profile_url for div in ['ima', 'mai', 'dev'])
HasDivisionToken(url) ==
  \E p \in 1..Len(url.path) : url.path[p].word \in Divisions

(* ------------- scrape_alphabet_index, the extraction -------------------- *)
MaxElements == 2     \* elements one selector can match on the index page

AlternativeSelectors == 5

\* An li.model-entry or a link of the index page: the text of its link, the
\* alt text of its image, the href of its link, its data-id and the src of
\* its image.
Element(text, alt, href) ==
  [text |-> text, alt |-> alt, href |-> href, data_id |-> 0, src |-> 1]

ProfilePath(d, n) == <<Word("w"), Word("models"), Seg(d, n, TRUE)>>

Elements ==
  { Element(text, alt, href) :
      text \in {<<>>, <<"A">>},
      alt \in {<<>>, <<" ">>, <<"a">>},
      href \in {NoHref, Href(TRUE, ProfilePath("dev", 1)),
                Href(FALSE, ProfilePath("dev", 1)),
                Href(FALSE, ProfilePath("ima", 2)),
                Href(FALSE, <<Word("about")>>)} }

ElementLists == UNION { [1..n -> Elements] : n \in 0..MaxElements }

\* the dict both extraction methods build (lines 409-419 and 493-503)
IndexEntry(id, name, url, src) ==
  [model_id |-> id, name |-> name,
   division |-> extract_division_from_url(url.path),
   profile_url |-> url, thumbnail |-> src, slug |-> slugify_name(name),
   attributes |-> {}, gallery_images |-> <<>>, images |-> <<>>]

\* _extract_model_from_entry lines 365-425
extract_model_from_entry(entry) ==
  LET model_name == Strip(entry.text)
      profile_url == Resolve(entry.href)
  IN
  IF model_name = <<>> THEN None
  ELSE IF entry.href = NoHref THEN None
  ELSE IndexEntry(IF entry.data_id # 0 THEN entry.data_id
                  ELSE IdFromUrl(profile_url.path),
                  model_name, profile_url, entry.src)

\* mutant: the link text is taken first, the alt text only without one
extract_model_from_link_text_first(link_elem) ==
  LET model_name ==
        IF Strip(link_elem.text) # <<>> THEN Strip(link_elem.text)
        ELSE Strip(link_elem.alt)
      profile_url == Resolve(link_elem.href)
  IN
  IF model_name = <<>> THEN None
  ELSE IF link_elem.href = NoHref THEN None
  ELSE IF ~HasDivisionToken(profile_url) THEN None
  ELSE IndexEntry(IdFromUrl(profile_url.path), model_name, profile_url,
                  link_elem.src)

\* _extract_model_from_link lines 452-509
extract_model_from_link(link_elem) ==
  LET model_name ==
        IF link_elem.alt # <<>> THEN Strip(link_elem.alt)
        ELSE IF Strip(link_elem.text) # <<>> THEN Strip(link_elem.text)
        ELSE <<>>
      profile_url == Resolve(link_elem.href)
  IN
  IF model_name = <<>> THEN None
  ELSE IF link_elem.href = NoHref THEN None
  ELSE IF ~HasDivisionToken(profile_url) THEN None
  ELSE IndexEntry(IdFromUrl(profile_url.path), model_name, profile_url,
                  link_elem.src)

RECURSIVE UniqueFrom(_, _, _)
UniqueFrom(ms, unique, seen_urls) ==
  IF ms = <<>> THEN unique
  ELSE IF ms[1].profile_url \notin seen_urls
    THEN UniqueFrom(Tail(ms), Append(unique, ms[1]),
                    seen_urls \cup {ms[1].profile_url})
    ELSE UniqueFrom(Tail(ms), unique, seen_urls)

\* mutant: nothing is removed
unique_models_all(ms) == ms

\* lines 345-353: the first model of every profile URL, in order
unique_models(ms) == UniqueFrom(ms, <<>>, {})

indexVars == <<config, disk, test_mode, max_models, i, model_data, downloaded_files,
               models_file, processed_models, driver, session, result,
               faults, rq>>

\* line 242: loading the page raises; the method returns []
IndexPageError ==
  /\ pc = "select_letter_groups"
  /\ index_models' = <<>>
  /\ index_outcome' = "page_error"
  /\ pc' = "indexed"
  /\ events' = Append(events, Event("index", 0, 0, FALSE))
  /\ UNCHANGED <<soup, models, j, stats>>
  /\ UNCHANGED indexVars

\* what a selector matches on the page, as the soup in hand
Select(method, selector) ==
  /\ \E elements \in ElementLists :
       soup' = [method |-> method, selector |-> selector, elements |-> elements]
  /\ j' = 1
  /\ events' = Append(events, Event("select", method, selector, TRUE))
  /\ pc' = "extract"
  /\ UNCHANGED <<models, index_models, index_outcome, stats>>
  /\ UNCHANGED indexVars

\* lines 271-296: the entries of the containers of the letter groups, over
\* all groups in page order
SelectLetterGroups ==
  /\ pc = "select_letter_groups"
  /\ Select(1, 0)

\* lines 299-312: all li.model-entry elements
SelectEntries ==
  /\ pc = "select_entries"
  /\ Select(2, 0)

\* lines 325-326: the next alternative selector
SelectAlternative ==
  /\ pc = "select_alternative"
  /\ Select(3, IF soup.method = 3 THEN soup.selector + 1 ELSE 1)

\* lines 289-296, 305-312 and 330-337: one element of the soup in hand
ExtractElement ==
  /\ pc = "extract"
  /\ j <= Len(soup.elements)
  /\ LET item == IF soup.method = 3
                   THEN extract_model_from_link(soup.elements[j])
                   ELSE extract_model_from_entry(soup.elements[j])
     IN models' = IF item = None THEN models ELSE Append(models, item)
  /\ j' = j + 1
  /\ UNCHANGED <<pc, soup, index_models, index_outcome, stats, events>>
  /\ UNCHANGED indexVars

\* mutant: the alternative selectors go on until one gives a model
AfterMethodUntilModels(method, selector, elements, ms) ==
  IF ms # <<>> THEN "remove_duplicates"
  ELSE IF method = 1 THEN "select_entries"
  ELSE IF method = 2 THEN "select_alternative"
  ELSE IF selector = AlternativeSelectors THEN "remove_duplicates"
  ELSE "select_alternative"

\* lines 299, 315, 327 and 338: where the method goes after the elements of
\* one selector
AfterMethod(method, selector, elements, ms) ==
  IF method = 1 THEN (IF ms = <<>> THEN "select_entries" ELSE "remove_duplicates")
  ELSE IF method = 2
    THEN (IF ms = <<>> THEN "select_alternative" ELSE "remove_duplicates")
  ELSE IF elements # <<>> THEN "remove_duplicates"
  ELSE IF selector = AlternativeSelectors THEN "remove_duplicates"
  ELSE "select_alternative"

\* the loop over the elements of one selector is over; before another
\* selector is tried its elements are let go
NextStrategy ==
  /\ pc = "extract"
  /\ j > Len(soup.elements)
  /\ pc' = AfterMethod(soup.method, soup.selector, soup.elements, models)
  /\ soup' = IF pc' = "remove_duplicates" THEN soup
             ELSE [soup EXCEPT !.elements = <<>>]
  /\ j' = 0
  /\ UNCHANGED <<models, index_models, index_outcome, stats, events>>
  /\ UNCHANGED indexVars

\* lines 345-357
RemoveDuplicates ==
  /\ pc = "remove_duplicates"
  /\ models' = unique_models(models)
  /\ index_models' = models'
  /\ stats' = [stats EXCEPT !.models_found = Len(models')]
  /\ index_outcome' = "listed"
  /\ pc' = "indexed"
  /\ events' = Append(events, Event("index", 0, 0, TRUE))
  /\ UNCHANGED <<soup, j>>
  /\ UNCHANGED indexVars

InitIndex ==
  /\ pc = "select_letter_groups"
  /\ config = DefaultConfig
  /\ test_mode = FALSE
  /\ max_models = None
  /\ index_models = <<>>
  /\ index_outcome = "pending"
  /\ models = <<>>
  /\ i = 0
  /\ model_data = NoModel
  /\ j = 0
  /\ downloaded_files = <<>>
  /\ stats = InitStats
  /\ models_file = <<>>
  /\ processed_models = <<>>
  /\ driver = "live"
  /\ session = "open"
  /\ result = "pending"
  /\ events = <<>>
  /\ faults = 0
  /\ rq = NoRequest
  /\ disk = {}
  /\ soup = NoSoup

NextIndex ==
  \/ IndexPageError
  \/ SelectLetterGroups
  \/ SelectEntries
  \/ SelectAlternative
  \/ ExtractElement
  \/ NextStrategy
  \/ RemoveDuplicates

SpecIndex == InitIndex /\ [][NextIndex]_vars

(* --------------- the slug of an extracted entry ------------------------- *)
MaxNameLen == 3      \* characters of a link text

Texts == UNION { [1..n -> Chars] : n \in 0..MaxNameLen }

\* One li.model-entry with any link text is about to be extracted.
InitSlug ==
  /\ pc = "extract"
  /\ \E text \in Texts :
       soup = [method |-> 2, selector |-> 0,
               elements |-> <<Element(text, <<>>, Href(TRUE, ProfilePath("dev", 1)))>>]
  /\ j = 1
  /\ config = DefaultConfig
  /\ test_mode = FALSE
  /\ max_models = None
  /\ index_models = <<>>
  /\ index_outcome = "pending"
  /\ models = <<>>
  /\ i = 0
  /\ model_data = NoModel
  /\ downloaded_files = <<>>
  /\ stats = InitStats
  /\ models_file = <<>>
  /\ processed_models = <<>>
  /\ driver = "live"
  /\ session = "open"
  /\ result = "pending"
  /\ events = <<Event("select", 2, 0, TRUE)>>
  /\ faults = 0
  /\ rq = NoRequest
  /\ disk = {}

NextSlug == ExtractElement

SpecSlug == InitSlug /\ [][NextSlug]_vars

(* ------------- the division of an extracted entry ---------------------- *)
MaxSegments == 5     \* segments of a profile URL's path

Segments ==
  {Word("models"), Word("dev"), Word("ima"), Word("x"), Word(""),
   Seg("dev", 1, TRUE), Seg("ima", 1, FALSE)}

Paths == UNION { [1..n -> Segments] : n \in 0..MaxSegments }

\* One li.model-entry with an absolute href of any path is about to be
\* extracted.
InitDivision ==
  /\ pc = "extract"
  /\ \E path \in Paths :
       soup = [method |-> 2, selector |-> 0,
               elements |-> <<Element(<<"a">>, <<>>, Href(FALSE, path))>>]
  /\ j = 1
  /\ config = DefaultConfig
  /\ test_mode = FALSE
  /\ max_models = None
  /\ index_models = <<>>
  /\ index_outcome = "pending"
  /\ models = <<>>
  /\ i = 0
  /\ model_data = NoModel
  /\ downloaded_files = <<>>
  /\ stats = InitStats
  /\ models_file = <<>>
  /\ processed_models = <<>>
  /\ driver = "live"
  /\ session = "open"
  /\ result = "pending"
  /\ events = <<Event("select", 2, 0, TRUE)>>
  /\ faults = 0
  /\ rq = NoRequest
  /\ disk = {}

NextDivision == ExtractElement

SpecDivision == InitDivision /\ [][NextDivision]_vars

(* ------------------- _extract_model_attributes -------------------------- *)
MaxRows == 2         \* rows of the features table

\* The text of a table cell: its lower-case form, whether it has upper-case
\* letters, and whether white space surrounds it.
Text(str, upper, padded) == [str |-> str, upper |-> upper, padded |-> padded]
Plain(str) == Text(str, FALSE, FALSE)
\* get_text(strip=True) and str.strip()
GetText(cell) == [cell EXCEPT !.padded = FALSE]
\* str.lower()
LowerText(text) == [text EXCEPT !.upper = FALSE]

\* lines 621-634
name_mapping ==
  [name \in {"height", "bust", "waist", "hips", "shoes", "hair", "eyes"} |-> name]
    @@ ("chest" :> "bust") @@ ("shoe" :> "shoes") @@ ("hair color" :> "hair")
    @@ ("eye color" :> "eyes") @@ ("eye colour" :> "eyes")

\* mutant: no synonym is mapped
normalize_attribute_unmapped(name) == GetText(LowerText(name))

\* _normalize_attribute_name lines 618-636
normalize_attribute_name(name) ==
  LET key == GetText(LowerText(name)) IN
  IF key.str \in DOMAIN name_mapping THEN Plain(name_mapping[key.str]) ELSE key

\* attributes[name] = value
Store(attributes, name, value) ==
  [key \in (DOMAIN attributes) \cup {name} |->
     IF key = name THEN value ELSE attributes[key]]

NameCells ==
  {Plain(""), Text("", FALSE, TRUE), Text("eyes", FALSE, TRUE)} \cup
  { Text(str, upper, FALSE) :
      str \in {"eye colour", "chest", "eyes", "weight"}, upper \in BOOLEAN }
ValueCells == {Plain(""), Text("blue", TRUE, FALSE), Text("90", FALSE, TRUE)}
Rows ==
  { <<name, value>> : name \in NameCells, value \in ValueCells } \cup
  { <<Plain("height")>>,
    <<Plain("shoe"), Text("42", FALSE, FALSE), Text("eu", TRUE, FALSE)>> }
Tables == UNION { [1..n -> Rows] : n \in 0..MaxRows }

\* lines 597-611: one row of the features table
ExtractAttributeRow ==
  /\ pc = "attributes"
  /\ j <= Len(soup.elements)
  /\ LET cells == soup.elements[j] IN
     IF Len(cells) >= 2
       THEN LET feature_name == LowerText(GetText(cells[1]))
                feature_value == GetText(cells[2])
            IN
            IF feature_name.str # "" /\ feature_value.str # ""
              THEN model_data' =
                     [model_data EXCEPT !.attributes =
                        Store(@, normalize_attribute_name(feature_name),
                              feature_value)]
              ELSE UNCHANGED model_data
       ELSE UNCHANGED model_data
  /\ j' = j + 1
  /\ UNCHANGED <<pc, config, disk, downloaded_files, stats, models_file, events,
                 faults, rq>>
  /\ UNCHANGED pipeVars

\* lines 613-614: the dict is returned
ExtractAttributesReturn ==
  /\ pc = "attributes"
  /\ j > Len(soup.elements)
  /\ pc' = "attributes_done"
  /\ UNCHANGED <<config, disk, model_data, j, downloaded_files, stats, models_file,
                 events, faults, rq>>
  /\ UNCHANGED pipeVars

\* The rows of the features table of one profile page have been found.
InitAttributes ==
  /\ pc = "attributes"
  /\ \E rows \in Tables : soup = [method |-> 0, selector |-> 0, elements |-> rows]
  /\ j = 1
  /\ model_data = [IndexItem(1, "plain") EXCEPT !.attributes = <<>>]
  /\ models = <<IndexItem(1, "plain")>>
  /\ index_models = models
  /\ index_outcome = "listed"
  /\ i = 1
  /\ config = DefaultConfig
  /\ test_mode = FALSE
  /\ max_models = None
  /\ downloaded_files = <<>>
  /\ stats = [InitStats EXCEPT !.models_found = 1]
  /\ models_file = <<>>
  /\ processed_models = <<>>
  /\ driver = "live"
  /\ session = "open"
  /\ result = "pending"
  /\ events = <<>>
  /\ faults = 0
  /\ rq = NoRequest
  /\ disk = {}

NextAttributes ==
  \/ ExtractAttributeRow
  \/ ExtractAttributesReturn

SpecAttributes == InitAttributes /\ [][NextAttributes]_vars

(* ======================= properties ==================================== *)
Positions(stage, k) ==
  { p \in 1..Len(events) : events[p].stage = stage /\ events[p].item = k }
Happened(stage, k, ok) ==
  \E p \in Positions(stage, k) : events[p].ok = ok
FailureStages == {"fetch", "download", "get_thumbnail", "get_portfolio", "save"}
TerminalAt(p) ==
  \/ events[p].stage = "save"
  \/ events[p].stage \in {"validate", "download"} /\ ~events[p].ok

\* item k of the limited list has reached its terminal outcome
ItemFinished(k) == k < i \/ (k = i /\ pc = "after_item")
Finished == { k \in 1..Len(models) : ItemFinished(k) }
Persisted(k) == \E n \in 1..Len(models_file) : models_file[n].profile_url = k
LoopOver == pc \in {"finally", "close_session", "returned", "raised"}
               /\ index_models # <<>>

\* the run's only failure is the detail fetch of item 2
OnlyFetchOfItem2Fails ==
  /\ Happened("fetch", 2, FALSE)
  /\ \A p \in 1..Len(events) :
       (events[p].stage \in FailureStages /\ ~events[p].ok)
         => (events[p].stage = "fetch" /\ events[p].item = 2)
  /\ \A k \in 1..Len(models) : models[k].model_id # 0

Last(s) == s[Len(s)]
\* the step appends an event of this stage to the history
Logs(stage) == Len(events') = Len(events) + 1 /\ Last(events').stage = stage
\* the step brings the current item to its terminal outcome
ItemEnds == pc # "after_item" /\ pc' = "after_item"
Counted(processed, failed) ==
  /\ stats'.models_processed = stats.models_processed + processed
  /\ stats'.models_failed = stats.models_failed + failed
FetchCount ==
  Cardinality({ p \in 1..Len(events) : events[p].stage = "fetch" })
InLoop ==
  pc \in {"loop", "fetch", "download", "thumbnail", "gallery", "validate",
          "save", "after_item"}

\* C1 as stated: an item whose detail fetch raised ends counted as failed
\* and is not persisted.
C1_FetchFailureFailsItem ==
  \A k \in Finished : Happened("fetch", k, FALSE) => ~Persisted(k)

C1_Scenario ==
  (pc = "returned" /\ Len(models) = 3 /\ OnlyFetchOfItem2Fails
     /\ models[2].thumbnail = 0)
    => /\ stats.models_processed = 2
       /\ stats.models_failed = 1
       /\ Len(models_file) = 2

C1_Step ==
  LET k == model_data.profile_url IN
  /\ ItemEnds =>
       \/ Counted(1, 0) /\ models_file' = Append(models_file, Record(model_data))
       \/ Counted(0, 1) /\ models_file' = models_file
  /\ ~ItemEnds => Counted(0, 0) /\ models_file' = models_file
  /\ (ItemEnds /\ Happened("fetch", k, FALSE)) =>
       /\ model_data.attributes = {}
       /\ model_data.gallery_images = <<>>
       /\ models_file' # models_file <=>
            /\ Happened("get_thumbnail", k, TRUE)
            /\ model_data.model_id # 0
            /\ ~(Logs("save") /\ ~Last(events').ok)
            /\ ~Logs("download")
       /\ models_file' # models_file =>
            /\ Last(models_file').profile_url = k
            /\ Last(models_file').attributes = {}
            /\ Last(models_file').images =
                 <<ImagePath(model_data.slug, File("thumbnail", 0))>>
  /\ LoopOver' => Finished' = 1..Len(models')
  /\ C1_Scenario'

\* C1 amended: a detail fetch that raises is caught inside
\* scrape_model_profile and the item goes on with empty attributes and an
\* empty gallery; every item that reaches its terminal outcome adds exactly 1
\* to exactly one of models_processed (with one record appended) and
\* models_failed (with none), and an item whose fetch raised is persisted (as
\* a record with no attributes and the thumbnail as its only image) exactly
\* when its thumbnail was downloaded, it has an identifier and the append
\* succeeded; the following items are processed either way, and for 3 items
\* where only item 2's fetch fails and item 2 has no thumbnail URL the run
\* ends with processed = 2, failed = 1 and 2 lines in the log.
C1_FetchFailureDegradesItem == [][C1_Step]_vars

C1_Witness ==
  /\ pc = "returned"
  /\ Len(models) = 3
  /\ OnlyFetchOfItem2Fails
  /\ models[2].thumbnail = 0
  /\ Persisted(3)

C2_Step ==
  /\ events' # events =>
       /\ Len(events') = Len(events) + 1
       /\ SubSeq(events', 1, Len(events)) = events
       /\ events # <<>> => Last(events').item >= Last(events).item
  /\ Logs("fetch") =>
       LET k == Last(events').item IN
       /\ k = FetchCount + 1
       /\ k <= Len(models)
       /\ models[k].profile_url = k
       /\ IF k = 1 THEN Last(events).stage = "index"
          ELSE /\ Last(events) = Event("delay", k - 1, 0, TRUE)
               /\ TerminalAt(Len(events) - 1)
               /\ events[Len(events) - 1].item = k - 1
  /\ Logs("delay") =>
       /\ TerminalAt(Len(events))
       /\ Last(events').item = Last(events).item
  /\ LoopOver' => FetchCount' = Len(models')
  /\ (InLoop /\ ~InLoop') => FetchCount = Len(models)

C3_Step ==
  /\ events' # events =>
       /\ Len(events') = Len(events) + 1
       /\ SubSeq(events', 1, Len(events)) = events
       /\ Last(events').stage # "index" =>
            LET e == Last(events')
                before == Last(events)
            IN
            /\ e.stage = "download" =>
                 before.stage = "fetch" /\ before.item = e.item
            /\ e.stage \in {"get_thumbnail", "get_portfolio", "validate"} =>
                 /\ before.item = e.item
                 /\ \/ before = Event("download", e.item, 0, TRUE)
                    \/ before.stage \in {"get_thumbnail", "get_portfolio"}
            /\ e.stage = "save" => before = Event("validate", e.item, 0, TRUE)
  /\ models_file' # models_file =>
       LET k == model_data.profile_url IN
       /\ models_file' = Append(models_file, Record(model_data))
       /\ Logs("save")
       /\ Last(events') = Event("save", k, 0, TRUE)
       /\ Last(events) = Event("validate", k, 0, TRUE)
       /\ ~Happened("validate", k, FALSE)
  /\ (Logs("validate") /\ ~Last(events').ok) =>
       /\ ~Persisted(Last(events').item)
       /\ pc' = "after_item"

\* C3: for every item the stages run in the order detail fetch, asset
\* materialization, validation, append; a record is appended only right
\* after the validation of that item returned true, and an item whose
\* validation returned false goes to its terminal outcome without an append.
C3_StageOrder == [][C3_Step]_vars

C3_Witness ==
  /\ pc = "returned"
  /\ Persisted(1)
  /\ Happened("validate", 2, FALSE)
  /\ ~Persisted(2)
  /\ Persisted(3)

\* C4: validate_model_data returns true exactly when identifier, name,
\* division and detail URL are all non-empty, the division is one of the
\* configured valid divisions and the item has at least the configured
\* minimum number of asset paths; the attributes never change the verdict.
C4_ValidationRule ==
  (pc # "validate" /\ Len(events) > 0 /\ events[Len(events)].stage = "validate")
    => LET verdict == events[Len(events)].ok
           expected ==
             /\ model_data.model_id # 0
             /\ model_data.name # 0
             /\ model_data.division # ""
             /\ model_data.profile_url # 0
             /\ model_data.division \in config.required_divisions
             /\ Len(model_data.images) >= config.min_images_per_model
       IN /\ verdict <=> expected
          /\ pc = (IF expected THEN "save" ELSE "after_item")
          /\ \A at \in SUBSET ExpectedAttributes :
               validate_model_data([model_data EXCEPT !.attributes = at], config)
                 = verdict

C4_Witness ==
  /\ pc = "after_item"
  /\ events # <<>>
  /\ model_data.model_id = 0
  /\ model_data.name # 0
  /\ model_data.profile_url # 0
  /\ model_data.division \in config.required_divisions
  /\ Len(model_data.images) >= 1
  /\ Len(model_data.images) >= config.min_images_per_model
  /\ model_data.attributes = {}


GalleryAttempts ==
  Cardinality({ p \in 1..Len(events) : events[p].stage = "get_portfolio" })

\* C5 as stated: under a configured maximum M per item (thumbnail included)
\* at most M - 1 gallery downloads are attempted and the item never ends with
\* more than M asset paths.
C5_AssetCap ==
  /\ GalleryAttempts <= Max(config.max_images_per_model - 1, 0)
  /\ Len(downloaded_files) <= config.max_images_per_model
  /\ Len(model_data.images) <= config.max_images_per_model

\* C6: run_scraper reports failure exactly when the index stage gave no item
\* or an exception left the pipeline, and success whenever the index gave at
\* least one item and no exception escaped, also when every item failed.
C6_SuccessFlag ==
  pc = "returned" =>
    /\ result \in {"success", "failure", "failure_error"}
    /\ result # "success" <=>
         (index_outcome = "setup_raised" \/ index_models = <<>>)
    /\ (index_outcome = "listed" /\ index_models # <<>>) => result = "success"

C6_Witness ==
  /\ pc = "returned"
  /\ result = "success"
  /\ Len(models) >= 2
  /\ stats.models_processed = 0
  /\ stats.models_failed = Len(models)

\* C7 as stated: on every exit from run_scraper the browser session and the
\* HTTP session are closed and no live browser session is held, also when
\* closing the browser session fails.
C7_CleanupUnconditional ==
  pc \in {"returned", "raised"} => (driver = "none" /\ session = "closed")

\* the number of items the stated cap lets through
HardCap ==
  IF test_mode THEN Min(TestModeCap, Len(index_models))
  ELSE IF max_models.some THEN Min(max_models.v, Len(index_models))
  ELSE Len(index_models)

\* C8 as stated: of n indexed items exactly the first min(3, n) are processed
\* in test mode, and otherwise exactly the first min(m, n) when a maximum m is
\* given; no item beyond the cap reaches any stage.
C8_HardCap ==
  /\ (pc \notin {"start", "indexed"} /\ index_models # <<>>)
       => models = SubSeq(index_models, 1, HardCap)
  /\ \A p \in 1..Len(events) : events[p].item <= HardCap
  /\ \A n \in 1..Len(models_file) : models_file[n].profile_url <= HardCap

(* ------------------------ safe_request --------------------------------- *)
Gets == { p \in 1..Len(rq.trace) : rq.trace[p].op = "get" }
FailedGets == { p \in Gets : rq.trace[p].outcome # "ok" }
Attempts == IF config.max_retries > 0 THEN config.max_retries ELSE 0

RECURSIVE SleptUpTo(_)
SleptUpTo(n) ==
  IF n = 0 THEN 0
  ELSE SleptUpTo(n - 1) + (IF rq.trace[n].op = "sleep" THEN rq.trace[n].t ELSE 0)

RECURSIVE SumTo(_)
SumTo(n) == IF n <= 0 THEN 0 ELSE n + SumTo(n - 1)

\* the number of the attempt (1, 2, ...) the GET at position p belongs to
AttemptNo(p) == Cardinality({ q \in Gets : q <= p })

GetStages == {"get_thumbnail", "get_portfolio"}
\* the downloads attempted so far, in the order they were attempted
DownloadAttempts == SelectSeq(events, LAMBDA e : e.stage \in GetStages)
OkAttempts == SelectSeq(DownloadAttempts, LAMBDA e : e.ok)
FailedAttempts == SelectSeq(DownloadAttempts, LAMBDA e : ~e.ok)
\* the downloads the item calls for: the thumbnail when it has a URL, then
\* the capped gallery URLs 1, 2, ...
PlannedAttempts ==
  (IF model_data.thumbnail # 0 THEN << <<"get_thumbnail", 0>> >> ELSE <<>>) \o
  [k \in 1..Len(LimitedGalleryImages(model_data.gallery_images, config)) |->
     <<"get_portfolio", k>>]
Downloading == pc \in {"thumbnail", "gallery"}

\* C11: within download_model_images the thumbnail (when its URL is present)
\* is attempted first and then every capped gallery URL exactly once and in
\* order, whatever failed before; a failed download never stops the method,
\* and each attempt adds 1 to exactly one of images_downloaded (success) and
\* images_failed (failure).
C11_DownloadIsolation ==
  /\ Len(DownloadAttempts) <= Len(PlannedAttempts)
  /\ \A p \in 1..Len(DownloadAttempts) :
       <<DownloadAttempts[p].stage, DownloadAttempts[p].n>> = PlannedAttempts[p]
  /\ pc = "validate" => Len(DownloadAttempts) = Len(PlannedAttempts)
  /\ Downloading => ENABLED NextDownload
  /\ stats.images_downloaded = Len(OkAttempts)
  /\ stats.images_failed = Len(FailedAttempts)

C11_Witness ==
  /\ pc = "validate"
  /\ Len(DownloadAttempts) = 3
  /\ ~DownloadAttempts[1].ok
  /\ ~DownloadAttempts[2].ok
  /\ DownloadAttempts[3] = Event("get_portfolio", 1, 2, TRUE)
  /\ stats.images_failed = 2
  /\ stats.images_downloaded = 1

FileOf(e) ==
  File(IF e.stage = "get_thumbnail" THEN "thumbnail" ELSE "portfolio", e.n)

\* C12: after download_model_images the item's list of asset paths holds
\* exactly the files whose download succeeded, under the item's slug, with
\* nothing for a failed download, the thumbnail first and then the portfolio
\* files in gallery order; the file of the k-th capped gallery URL is
\* portfolio<k>, so a failed download leaves a gap in the numbers.
C12_AssetPaths ==
  pc = "validate" =>
    LET images == model_data.images
        L == Len(LimitedGalleryImages(model_data.gallery_images, config))
    IN
    /\ Len(images) = Len(OkAttempts)
    /\ \A q \in 1..Len(images) :
         images[q] = ImagePath(model_data.slug, FileOf(OkAttempts[q]))
    /\ \A k \in 1..L :
         (\E q \in 1..Len(images) : images[q].kind = "portfolio" /\ images[q].n = k)
           <=> Event("get_portfolio", model_data.profile_url, k, TRUE)
                 \in { events[p] : p \in 1..Len(events) }
    /\ \A q \in 1..Len(images) :
         /\ images[q].kind = "thumbnail" => q = 1
         /\ images[q].kind = "portfolio" => images[q].n \in 1..L
         /\ \A r \in 1..Len(images) :
              (q < r /\ images[q].kind = "portfolio") =>
                (images[r].kind = "portfolio" /\ images[q].n < images[r].n)

C12_Witness ==
  /\ pc = "validate"
  /\ model_data.images =
       <<ImagePath(model_data.slug, File("thumbnail", 0)),
         ImagePath(model_data.slug, File("portfolio", 2))>>
  /\ Event("get_portfolio", model_data.profile_url, 1, FALSE)
       \in { events[p] : p \in 1..Len(events) }

(* --------------------- scrape_alphabet_index --------------------------- *)
Urls(ms) == { ms[k].profile_url : k \in 1..Len(ms) }
FirstWith(ms, url) == MinOf({ k \in 1..Len(ms) : ms[k].profile_url = url })
\* what the method the soup in hand belongs to extracts from an element
Extracted(element) ==
  IF soup.method = 3 THEN extract_model_from_link(element)
  ELSE extract_model_from_entry(element)

C13_Step ==
  /\ (pc = "remove_duplicates" /\ pc' = "indexed") =>
       /\ index_models' = models'
       /\ Urls(index_models') = Urls(models)
       /\ \A q, r \in 1..Len(index_models') :
            /\ index_models'[q].profile_url = index_models'[r].profile_url => q = r
            /\ index_models'[q] = models[FirstWith(models, index_models'[q].profile_url)]
            /\ q < r => FirstWith(models, index_models'[q].profile_url)
                          < FirstWith(models, index_models'[r].profile_url)
       /\ stats'.models_found = Len(index_models')
  /\ (pc' = "indexed" /\ index_outcome' = "listed") => pc = "remove_duplicates"
  /\ pc' # "indexed" => index_models' = <<>> /\ stats'.models_found = 0

\* C13: whatever entries were extracted, the list scrape_alphabet_index
\* returns has no two items with the same resolved profile URL, holds for
\* every URL the first entry extracted with it, in the order in which the
\* URLs were first seen, and models_found is the length of that list.
C13_DedupByUrl == [][C13_Step]_vars

C13_Witness ==
  /\ pc = "indexed"
  /\ index_outcome = "listed"
  /\ Len(soup.elements) = 2
  /\ soup.elements[1].href.rel
  /\ ~soup.elements[2].href.rel
  /\ Extracted(soup.elements[1]) # None
  /\ Extracted(soup.elements[2]) # None
  /\ Extracted(soup.elements[1]).name # Extracted(soup.elements[2]).name
  /\ index_models = <<Extracted(soup.elements[1])>>
  /\ stats.models_found = 1

\* the selectors in the order of the code: letter groups, all entries, then
\* the alternative selectors
PlannedSelects ==
  <<Event("select", 1, 0, TRUE), Event("select", 2, 0, TRUE)>> \o
  [k \in 1..AlternativeSelectors |-> Event("select", 3, k, TRUE)]
Selects == SelectSeq(events, LAMBDA e : e.stage = "select")
ExtractedFrom(elements) ==
  SelectSeq([k \in 1..Len(elements) |-> Extracted(elements[k])],
            LAMBDA item : item # None)

C19_Step ==
  /\ Len(Selects') <= Len(PlannedSelects)
  /\ \A p \in 1..Len(Selects') : Selects'[p] = PlannedSelects[p]
  /\ Logs("select") =>
       /\ models = <<>>
       /\ soup'.method = Last(events').item
       /\ soup'.selector = Last(events').n
  /\ (pc = "extract" /\ pc' # "extract") =>
       /\ pc' \in {"select_entries", "select_alternative", "remove_duplicates"}
       /\ soup.method \in {1, 2} => (pc' = "remove_duplicates" <=> models # <<>>)
       /\ soup.method = 3 =>
            (pc' = "remove_duplicates"
               <=> (soup.elements # <<>> \/ soup.selector = AlternativeSelectors))
       /\ models = ExtractedFrom(soup.elements)
  /\ pc' = "remove_duplicates" => models' = ExtractedFrom(soup'.elements)
  /\ (pc' = "indexed" /\ index_outcome' = "listed") =>
       index_models' = unique_models(ExtractedFrom(soup'.elements))

\* C19: the strategies are tried in the order letter groups, flat entry
\* list, alternative link selectors; a selector is tried only while no item
\* has been extracted, so the items returned all come from the elements of
\* one selector; the alternative selectors are tried in order and the search
\* stops at the first one that matches any element, also when none of its
\* elements gives an item.
C19_StrategyFallback == [][C19_Step]_vars

C19_Witness ==
  /\ pc = "indexed"
  /\ index_outcome = "listed"
  /\ soup.method = 3
  /\ soup.selector = 2
  /\ Len(soup.elements) = 2
  /\ index_models = <<>>

\* the step extracts the element at j of the soup in hand
Extracts == pc = "extract" /\ j' = j + 1
\* the element is not left out for its URL
UrlAccepted(element) ==
  /\ element.href # NoHref
  /\ soup.method = 3 => HasDivisionToken(Resolve(element.href))
LinkTextFirst(element) ==
  IF Strip(element.text) # <<>> THEN Strip(element.text) ELSE Strip(element.alt)
\* the name by kind of strategy
NameOf(element) ==
  IF soup.method \in {1, 2} THEN Strip(element.text)
  ELSE IF element.alt # <<>> THEN Strip(element.alt)
  ELSE Strip(element.text)

C20_ClaimedStep ==
  Extracts =>
    LET element == soup.elements[j] IN
    /\ models' # models => Last(models').name = LinkTextFirst(element)
    /\ (models' = models /\ UrlAccepted(element)) =>
         (Strip(element.text) = <<>> /\ Strip(element.alt) = <<>>)

\* C20 as stated: in every index strategy the name of an item is the link
\* text when that is non-empty and the image's alt text only when the link
\* text is empty, and an element is left out for its name only when both are
\* empty.
C20_LinkTextFirst == [][C20_ClaimedStep]_vars

C20_Step ==
  Extracts =>
    LET element == soup.elements[j] IN
    /\ models' # models =>
         /\ models' = Append(models, Extracted(element))
         /\ Last(models').name = NameOf(element)
         /\ Last(models').name # <<>>
         /\ UrlAccepted(element)
    /\ models' = models <=> (NameOf(element) = <<>> \/ ~UrlAccepted(element))

\* C20 amended: in the two entry-based strategies the name is the link text,
\* and an entry with an empty link text is left out whatever the alt text of
\* its image; in the link-based strategy the name is the stripped alt text
\* of the image whenever the image has a non-empty alt attribute, and the
\* link text only when it has none; an element is left out for its name
\* exactly when the text so chosen is empty.
C20_NameByStrategy == [][C20_Step]_vars

C20_Witness ==
  /\ pc = "extract"
  /\ soup.method = 3
  /\ j = 2
  /\ soup.elements[1].text = <<"A">>
  /\ soup.elements[1].alt = <<"a">>
  /\ Len(models) = 1
  /\ models[1].name = <<"a">>

(* ---------------------- the output log over two runs ------------------- *)
IsPrefix(a, b) == Len(a) <= Len(b) /\ SubSeq(b, 1, Len(a)) = a
InSecondRun == Cardinality(IndexEvents) = 2
\* the position in the history where the second run starts
SecondStart == CHOOSE p \in IndexEvents : \A q \in IndexEvents : q <= p
FirstRunEvents == SubSeq(events, 1, SecondStart - 1)
SecondRunEvents == SubSeq(events, SecondStart, Len(events))
Saves(es) == Len(SelectSeq(es, LAMBDA e : e.stage = "save" /\ e.ok))
Copies(file, record) ==
  Cardinality({ n \in 1..Len(file) : file[n] = record })
\* the second run is over and went exactly as the first one did
SameRunTwice ==
  /\ InSecondRun
  /\ pc \in {"returned", "raised"}
  /\ SecondRunEvents = FirstRunEvents

C14_Step ==
  /\ IsPrefix(models_file, models_file')
  /\ Len(models_file') <= Len(models_file) + 1
  /\ (pc = "start" /\ InSecondRun') =>
       /\ models_file' = models_file
       /\ Len(models_file) = Saves(FirstRunEvents')
  /\ SameRunTwice' =>
       LET first == SubSeq(models_file', 1, Saves(FirstRunEvents')) IN
       /\ models_file' = first \o first
       /\ \A n \in 1..Len(first) : Copies(models_file', first[n]) = 2

\* C14: the output log is only ever appended to: every step, and so every
\* run, leaves the lines written before unchanged and in place; a second
\* run over the same index with the same outcomes appends a second copy of
\* the record of every item the first run persisted, so that the log then is
\* the first run's log twice over.
C14_AppendOnlyNotIdempotent == [][C14_Step]_vars

C14_Witness ==
  /\ SameRunTwice
  /\ pc = "returned"
  /\ Len(models_file) = 4
  /\ models_file[1] = models_file[3]
  /\ models_file[2] = models_file[4]
  /\ models_file[1].profile_url = 1
  /\ models_file[2].profile_url = 3
  /\ stats.models_processed = 2

(* ----------------------------- slugs ----------------------------------- *)
\* "Jane D'Oe-Smith" and "jane_doe_smith", letter for letter in the
\* character classes of the model
JaneDOeSmith ==
  <<"A", "a", "a", "a", " ", "A", "'", "A", "a", "-", "A", "a", "a", "a", "a">>
jane_doe_smith ==
  <<"a", "a", "a", "a", "_", "a", "a", "a", "_", "a", "a", "a", "a", "a">>

\* C15 as stated: every item the index stage produces has a non-empty name
\* and a slug that is non-empty, made of lowercase letters, digits and
\* underscores only, without an underscore at either end; the slug is the
\* function slugify_name of the name, which maps "Jane D'Oe-Smith" to
\* "jane_doe_smith".
C15_SlugInvariant ==
  /\ \A k \in 1..Len(models) :
       LET slug == models[k].slug IN
       /\ models[k].name # <<>>
       /\ slug = slugify_name(models[k].name)
       /\ slug # <<>>
       /\ \A p \in 1..Len(slug) : slug[p] \in {"a", "1", "_"}
       /\ slug[1] # "_"
       /\ slug[Len(slug)] # "_"
  /\ slugify_name(JaneDOeSmith) = jane_doe_smith

(* --------------------------- divisions --------------------------------- *)
\* the URL contains "/models/<d>/"
HasModelsDivision(path, d) ==
  \E p \in 1..(Len(path) - 2) : path[p] = Word("models") /\ path[p + 1] = Word(d)

\* C16: the division of a URL is that of the first of the three patterns
\* that matches, in the order "/models/<d>/", "/<d>-<digits>", "/<d>/":
\* a URL containing "/models/<d>/" yields d (that of the leftmost such place
\* when there are several) whatever the later patterns would match, a URL
\* that matches no pattern yields "unknown", and the result is always one of
\* ima, mai, dev, unknown.
C16_DivisionFirstMatch ==
  \A k \in 1..Len(models) :
    LET path == models[k].profile_url.path
        division == models[k].division
    IN
    /\ division \in Divisions \cup {"unknown"}
    /\ \A d \in Divisions :
         (HasModelsDivision(path, d)
            /\ \A e \in Divisions \ {d} : ~HasModelsDivision(path, e))
           => division = d
    /\ MatchModelsDivision(path) # {} =>
         division = path[MinOf(MatchModelsDivision(path)) + 1].word
    /\ (MatchModelsDivision(path) = {} /\ MatchDivisionPrefix(path) # {}) =>
         division = path[MinOf(MatchDivisionPrefix(path))].word
    /\ (MatchModelsDivision(path) = {} /\ MatchDivisionPrefix(path) = {}
          /\ MatchDivisionSegment(path) # {}) =>
         division = path[MinOf(MatchDivisionSegment(path))].word
    /\ division = "unknown" <=>
         /\ \A d \in Divisions : ~HasModelsDivision(path, d)
         /\ \A p \in 1..Len(path) :
              /\ ~(path[p].word \in Divisions /\ path[p].digits > 0)
              /\ ~(path[p] \in { Word(d) : d \in Divisions } /\ p < Len(path))

C16_Witness ==
  /\ Len(models) = 1
  /\ models[1].profile_url.path = <<Word("models"), Word("ima"), Seg("dev", 1, TRUE)>>
  /\ models[1].division = "ima"

(* --------------------------- attributes -------------------------------- *)
\* the synonym table of the attribute names, on lower-case names
Synonym(str) ==
  CASE str = "chest" -> "bust"
    [] str = "shoe" -> "shoes"
    [] str = "hair color" -> "hair"
    [] str \in {"eye color", "eye colour"} -> "eyes"
    [] OTHER -> str

C17_Step ==
  (pc = "attributes" /\ j' = j + 1) =>
    LET cells == soup.elements[j]
        before == model_data.attributes
        after == model_data'.attributes
    IN
    IF Len(cells) >= 2 /\ cells[1].str # "" /\ cells[2].str # ""
      THEN LET name == Plain(Synonym(cells[1].str)) IN
           /\ DOMAIN after = (DOMAIN before) \cup {name}
           /\ after[name] = Text(cells[2].str, cells[2].upper, FALSE)
           /\ \A key \in (DOMAIN before) \ {name} : after[key] = before[key]
           /\ (cells[1] = Text("eye colour", TRUE, FALSE)
                 /\ cells[2] = Text("blue", TRUE, FALSE))
                => after[Plain("eyes")] = Text("blue", TRUE, FALSE)
      ELSE after = before

\* C17: every row of the features table with at least two cells whose first
\* and second cell both have text stores the second cell's text under the
\* first cell's text, lower-cased and mapped through the synonym table (chest
\* to bust, shoe to shoes, hair color to hair, eye color and eye colour to
\* eyes, any other name to itself), so that "Eye Colour" / "Blue" gives
\* eyes: Blue; a row with fewer than two cells, an empty name or an empty
\* value adds no entry.
C17_AttributeNormalization == [][C17_Step]_vars

C17_Witness ==
  /\ pc = "attributes_done"
  /\ soup.elements = << <<Text("chest", TRUE, FALSE), Plain("")>>,
                        <<Text("eye colour", TRUE, FALSE), Text("blue", TRUE, FALSE)>> >>
  /\ DOMAIN model_data.attributes = {Plain("eyes")}
  /\ model_data.attributes[Plain("eyes")] = Text("blue", TRUE, FALSE)

(* ------------------------ inter-item delay ----------------------------- *)
DelayCount ==
  Cardinality({ p \in 1..Len(events) : events[p].stage = "delay" })

C18_Step ==
  /\ Logs("delay") =>
       /\ pc = "after_item"
       /\ i < Len(models)
       /\ Last(events').item = models[i].profile_url
       /\ TerminalAt(Len(events))
       /\ Last(events).item = models[i].profile_url
       /\ DelayCount' = i
       /\ pc' = "loop" /\ i' = i + 1
  /\ Logs("fetch") =>
       /\ DelayCount = FetchCount
       /\ FetchCount = 0 => Last(events).stage = "index"
       /\ FetchCount > 0 => Last(events).stage = "delay"
  /\ (pc = "after_item" /\ pc' # "after_item") =>
       (Logs("delay") <=> i < Len(models))
  /\ (pc = "after_item" /\ i = Len(models)) => events' = events
  /\ LoopOver' => DelayCount' = Len(models') - 1

\* C18: in a run over n >= 1 items exactly n - 1 inter-item delays occur,
\* the k-th one right after item k has reached its terminal outcome and
\* before the detail fetch of item k + 1; no delay comes before the first
\* item or after the last one, whether the items succeeded or failed.
C18_InterItemDelay == [][C18_Step]_vars

C18_Witness ==
  /\ pc = "returned"
  /\ Len(models) = 3
  /\ DelayCount = 2
  /\ Happened("validate", 1, FALSE)
  /\ Persisted(2)
  /\ Happened("save", 3, FALSE)
  /\ Last(events) = Event("save", 3, 0, FALSE)

(* -------------------- failure of the append ---------------------------- *)
SaveCount(k) == Cardinality(Positions("save", k))
Returned(k) ==
  \E n \in 1..Len(processed_models) : processed_models[n].profile_url = k

C21_Step ==
  LET k == model_data.profile_url IN
  /\ Logs("save") =>
       /\ pc = "save"
       /\ Last(events').item = k
       /\ Last(events) = Event("validate", k, 0, TRUE)
       /\ SaveCount(k) = 0
       /\ pc' = "after_item"
       /\ i' = i
  /\ (Logs("save") /\ ~Last(events').ok) =>
       /\ Counted(0, 1)
       /\ models_file' = models_file
       /\ processed_models' = processed_models
  /\ (pc = "after_item" /\ Last(events) = Event("save", k, 0, FALSE)) =>
       /\ pc' = "loop"
       /\ i' = i + 1
       /\ UNCHANGED <<stats, models_file, processed_models>>
  /\ (pc = "loop" /\ i <= Len(models)) =>
       /\ pc' = "fetch"
       /\ model_data' = models[i]
  /\ Logs("fetch") =>
       \A n \in 1..(Last(events').item - 1) : SaveCount(n) <= 1
  /\ LoopOver' =>
       \A n \in 1..Len(models') :
         Happened("save", n, FALSE)' =>
           /\ SaveCount(n)' = 1
           /\ ~Persisted(n)'
           /\ ~Returned(n)'
           /\ \A m \in n..Len(models') : Positions("fetch", m)' # {}

\* C21: the append of a validated item's record is attempted exactly once;
\* when it fails the item adds 1 to models_failed and nothing to
\* models_processed, no record of it is in the log, it is not in the list
\* run_parallel_processing returns, and the loop goes on to the next item.
C21_AppendFailure ==
  [][C21_Step]_vars /\ [](pc \in {"save", "after_item", "loop"} => ENABLED Next)

C21_Witness ==
  /\ pc = "returned"
  /\ Len(models) = 3
  /\ Happened("save", 1, FALSE)
  /\ Persisted(2)
  /\ Happened("save", 3, FALSE)
  /\ stats.models_failed = 2
  /\ stats.models_processed = 1
  /\ Len(processed_models) = 1

(* ------------------------ request throttling --------------------------- *)
IsRequest(e) == e.op \in {"get", "index_page", "profile_page"}
IsPage(e) == e.op \in {"index_page", "profile_page"}
Requests == { p \in 1..Len(rq.trace) : IsRequest(rq.trace[p]) }
RECURSIVE Previous(_, _)
\* the position of the last request before position q of trace t, or 0
Previous(t, q) ==
  IF q <= 1 THEN 0
  ELSE IF IsRequest(t[q - 1]) THEN q - 1
  ELSE Previous(t, q - 1)
RECURSIVE Slept(_, _, _)
\* the time slept strictly between positions p and q of trace t
Slept(t, p, q) ==
  IF p + 1 >= q THEN 0
  ELSE (IF t[p + 1].op = "sleep" /\ t[p + 1].outcome = "slept"
          THEN t[p + 1].t ELSE 0)
         + Slept(t, p + 1, q)
SleepAt(t, p, d) == p \in 1..Len(t) /\ t[p] = Sleep(d)
SleepsAtLeast(t, p, d) ==
  /\ p \in 1..Len(t)
  /\ t[p].op = "sleep"
  /\ t[p].t >= d

\* C22 as stated: every page fetch and every byte-fetch attempt sleeps (at
\* least) the configured request delay, and between two consecutive requests
\* to the site the thread sleeps at least the configured delay.
C22_DelayBetweenAllRequests ==
  CanSleep(config.request_delay) =>
    \A q \in Requests :
      LET t == rq.trace
          d == config.request_delay
      IN
      /\ t[q].op = "get" => SleepsAtLeast(t, q - 1, d)
      /\ (IsPage(t[q]) /\ t[q].outcome = "loaded") => SleepsAtLeast(t, q + 1, d)
      /\ Previous(t, q) # 0 => Slept(t, Previous(t, q), q) >= d

\* the request at position q of trace t under the configured delay d
Throttled(t, q, d) ==
  LET e == t[q]
      p == Previous(t, q)
  IN
  /\ e.op = "get" => SleepAt(t, q - 1, d)
  /\ (e.op = "index_page" /\ e.outcome = "loaded") => SleepAt(t, q + 1, IndexSettle)
  /\ (e.op = "profile_page" /\ e.outcome = "loaded") =>
       SleepAt(t, q + 1, ProfileSettle)
  /\ e.op = "index_page" <=> q = 1
  /\ p # 0 =>
       IF t[p].op = "index_page"
         THEN /\ e.op = "profile_page"
              /\ q = p + 2
              /\ Slept(t, p, q) = IndexSettle
         ELSE /\ Slept(t, p, q) >= d
              /\ e.op = "profile_page" => SleepAt(t, q - 1, d)

C22_Step ==
  /\ IsPrefix(rq.trace, rq.trace')
  /\ config' = config
  /\ CanSleep(config.request_delay) =>
       \A q \in (Len(rq.trace) + 1)..Len(rq.trace') :
         IsRequest(rq.trace'[q]) => Throttled(rq.trace', q, config.request_delay)

\* C22 amended, for a configured request delay that is not negative (a
\* negative one makes time.sleep raise): every byte-fetch attempt sleeps the
\* configured request delay right before its GET and the thread sleeps the
\* configured delay between two items, right before the detail page fetch of
\* the next one; a page fetch itself does not sleep the configured delay but,
\* once its navigation has returned, a fixed settle delay (5 s index page,
\* 3 s detail page).  So between two consecutive requests the thread sleeps
\* at least the configured delay, except between the index page fetch and
\* the first detail page fetch, where it sleeps the 5 s settle delay only.
C22_Throttling == [][C22_Step]_vars

C22_Witness ==
  LET t == rq.trace IN
  /\ pc = "finally"
  /\ config.request_delay = IndexSettle + 1
  /\ Len(models) = 2
  /\ stats.models_processed = 2
  /\ \E q \in Requests :
       /\ t[q].op = "profile_page"
       /\ t[Previous(t, q)].op = "index_page"
       /\ Slept(t, Previous(t, q), q) < config.request_delay
  /\ \E q \in Requests :
       /\ t[q].op = "profile_page"
       /\ t[Previous(t, q)] = Get("ok")
  /\ \E q \in Requests :
       /\ t[q] = Get("ok")
       /\ Previous(t, q) # 0
       /\ t[Previous(t, q)] = Get("transport_error")
       /\ Slept(t, Previous(t, q), q) = 2 * config.request_delay

(* ------------------------- run counters -------------------------------- *)
\* C23 as stated: every item that has reached its terminal outcome has added
\* 1 to exactly one of models_processed and models_failed, so their sum is
\* the number of finished items (after the loop the length of the limited
\* list, at most models_found), and models_processed is the number of
\* records appended in this run and the length of the processed list.
C23_CounterConsistency ==
  /\ stats.models_processed + stats.models_failed = Cardinality(Finished)
  /\ LoopOver =>
       /\ stats.models_processed + stats.models_failed = Len(models)
       /\ Len(models) <= stats.models_found
  /\ stats.models_processed = Len(models_file)
  /\ stats.models_processed = Len(processed_models)

(* ----------------------- asset directories ----------------------------- *)
\* a file is written only where no other item has written
WritesApart ==
  \A f \in disk' : \A g \in disk : g.path = f.path => g.by = f.by
\* every directory holds the files of one item
DirectoriesApart ==
  \A f, g \in disk : f.path.dir = g.path.dir => f.by = g.by
\* the asset paths of every record name files that hold that item's bytes
RecordsIntact ==
  \A n \in 1..Len(models_file) :
    \A m \in 1..Len(models_file[n].images) :
      [path |-> models_file[n].images[m], by |-> models_file[n].profile_url]
        \in disk

\* C24 as stated: two items with distinct detail URLs never write an asset
\* file to the same path, every per-slug directory is written by one item
\* only, and the asset paths of a persisted record name files downloaded for
\* that item which no other item has overwritten.
C24_AssetPathExclusivity ==
  [][WritesApart]_vars /\ [](DirectoriesApart /\ RecordsIntact)

====
